---- MODULE Spec2Model ----
(***************************************************************************)
(* State-machine model of the feed service of chatgpt-feed:                *)
(*   app/lib/feed-service.server.ts      settings store, cache, generate   *)
(*   app/lib/shopify-products.server.ts  paginated catalog fetch           *)
(*   app/lib/feed-mapper.server.ts       catalog -> feed records -> JSONL  *)
(* The D1 database is two tables (sets of rows) plus their AUTOINCREMENT   *)
(* counters.  Every async function is a process that takes one step per    *)
(* awaited database statement or upstream request; statements are atomic.  *)
(***************************************************************************)
EXTENDS Integers, Sequences, FiniteSets, TLC

VARIABLES
  feed_settings,      \* table feed_settings: a set of rows
  feed_settings_seq,  \* last AUTOINCREMENT id handed out for feed_settings
  feed_cache,         \* table feed_cache: a set of rows
  feed_cache_seq,     \* last AUTOINCREMENT id handed out for feed_cache
  now,                \* wall clock, milliseconds
  proc,               \* in-flight calls of the exported functions
  calls,              \* number of calls made so far
  generated           \* shops with a successful generateFeed whose cached
                      \* feed has not been deleted since (history)

vars ==
  <<feed_settings, feed_settings_seq, feed_cache, feed_cache_seq, now, proc,
    calls, generated>>

(***************************************************************************)
(* Bounds of the model.                                                    *)
(***************************************************************************)
MaxTicks == 1      \* clock ticks after the initial instant
MaxCalls == 3      \* calls of the exported functions in one behaviour
MaxPages == 2      \* catalog page requests per fetchAllProducts
MaxFetchPages == 4 \* the same, for fetchAllProducts called on its own
MaxPageLen == 1    \* products on one catalog page
NProcs == 2        \* calls in flight at the same time

Procs == 1..NProcs
Shops == {"a.myshopify.com", "b.myshopify.com"}

NULL == "<null>"
None == << >>
Some(v) == <<v>>

\* JavaScript truthiness of a string-or-null value (the || and && idiom).
Truthy(v) == v # NULL /\ v # ""
\* a || b on string-or-null values
Or(a, b) == IF Truthy(a) THEN a ELSE b

(***************************************************************************)
(* The clock.  Date.now() is `now`; the schema default unixepoch() * 1000  *)
(* has one-second resolution.                                              *)
(***************************************************************************)
MsPerSec == 1000
HalfSec == MsPerSec \div 2
DateNow == now
UnixEpochMs == (now \div MsPerSec) * MsPerSec

Tick ==
  /\ now < MsPerSec + MaxTicks * HalfSec
  /\ now' = now + HalfSec
  /\ UNCHANGED <<feed_settings, feed_settings_seq, feed_cache, feed_cache_seq, proc,
               calls, generated>>

(***************************************************************************)
(* Table feed_settings.                                                    *)
(***************************************************************************)
SettingsFields ==
  {"enable_search", "enable_checkout", "seller_name", "seller_url",
   "privacy_policy_url", "terms_of_service_url", "return_policy_url",
   "accepts_returns", "return_deadline_days", "accepts_exchanges",
   "store_country", "target_countries"}

BoolFields ==
  {"enable_search", "enable_checkout", "accepts_returns", "accepts_exchanges"}

\* (mutant) the columns the INSERT does not name are left without the schema
\* defaults of the returns block
DefaultSettingsRow_NoReturnDefaults(id, shop, epochMs) ==
  [id |-> id, shop |-> shop,
   enable_search |-> 1, enable_checkout |-> 0,
   seller_name |-> NULL, seller_url |-> NULL,
   privacy_policy_url |-> NULL, terms_of_service_url |-> NULL,
   return_policy_url |-> NULL,
   accepts_returns |-> 0, return_deadline_days |-> 0, accepts_exchanges |-> 0,
   store_country |-> "US", target_countries |-> "US",
   feed_generated_at |-> None, product_count |-> 0,
   created_at |-> epochMs, updated_at |-> epochMs]

\* The row INSERT INTO feed_settings (shop, enable_search, enable_checkout,
\* store_country, target_countries) VALUES (?, 1, 0, 'US', 'US') creates; the
\* columns it does not name take the schema defaults.
DefaultSettingsRow(id, shop, epochMs) ==
  [id |-> id, shop |-> shop,
   enable_search |-> 1, enable_checkout |-> 0,
   seller_name |-> NULL, seller_url |-> NULL,
   privacy_policy_url |-> NULL, terms_of_service_url |-> NULL,
   return_policy_url |-> NULL,
   accepts_returns |-> 1, return_deadline_days |-> 30, accepts_exchanges |-> 1,
   store_country |-> "US", target_countries |-> "US",
   feed_generated_at |-> None, product_count |-> 0,
   created_at |-> epochMs, updated_at |-> epochMs]

SettingsRowsOf(table, shop) == {r \in table : r.shop = shop}
CacheRowsOf(table, shop) == {r \in table : r.shop = shop}

\* shop TEXT NOT NULL UNIQUE: an INSERT of a second row for a shop fails.
UniqueViolation(table, shop) == SettingsRowsOf(table, shop) # {}

\* The object getFeedSettings builds from an existing row.
RowToSettings(row) ==
  [shop |-> row.shop,
   enable_search |-> (row.enable_search # 0),
   enable_checkout |-> (row.enable_checkout # 0),
   seller_name |-> row.seller_name,
   seller_url |-> row.seller_url,
   privacy_policy_url |-> row.privacy_policy_url,
   terms_of_service_url |-> row.terms_of_service_url,
   return_policy_url |-> row.return_policy_url,
   accepts_returns |-> (row.accepts_returns # 0),
   return_deadline_days |->
     IF row.return_deadline_days # 0 THEN row.return_deadline_days ELSE 30,
   accepts_exchanges |-> (row.accepts_exchanges # 0),
   store_country |-> Or(row.store_country, "US"),
   target_countries |-> Or(row.target_countries, "US")]

\* The literal getFeedSettings returns after inserting the default row.
DefaultSettings(shop) ==
  [shop |-> shop,
   enable_search |-> TRUE, enable_checkout |-> FALSE,
   seller_name |-> NULL, seller_url |-> NULL,
   privacy_policy_url |-> NULL, terms_of_service_url |-> NULL,
   return_policy_url |-> NULL,
   accepts_returns |-> TRUE, return_deadline_days |-> 30,
   accepts_exchanges |-> TRUE,
   store_country |-> "US", target_countries |-> "US"]

\* The value updateFeedSettings binds for a field of `updates`.
BindValue(f, v) == IF f \in BoolFields THEN (IF v THEN 1 ELSE 0) ELSE v

\* (mutant) a full overwrite: a settings field absent from `updates` is reset
\* to its column default
UpdateSettingsRow_Full(row, updates, ts) ==
  [f \in DOMAIN row |->
     IF f \in DOMAIN updates \cap SettingsFields THEN BindValue(f, updates[f])
     ELSE IF f = "updated_at" THEN ts
     ELSE IF f \in SettingsFields THEN DefaultSettingsRow_NoReturnDefaults(0, "", 0)[f]
     ELSE row[f]]

\* UPDATE feed_settings SET <fields of updates>, updated_at = ? WHERE shop = ?
UpdateSettingsRow(row, updates, ts) ==
  [f \in DOMAIN row |->
     IF f \in DOMAIN updates \cap SettingsFields THEN BindValue(f, updates[f])
     ELSE IF f = "updated_at" THEN ts
     ELSE row[f]]

SqlUpdateSettings(table, shop, updates, ts) ==
  {IF r.shop = shop THEN UpdateSettingsRow(r, updates, ts) ELSE r : r \in table}

\* UPDATE feed_settings SET feed_generated_at = ?, product_count = ?,
\* updated_at = ? WHERE shop = ?
SqlStampSettings(table, shop, ts, count) ==
  {IF r.shop = shop
     THEN [r EXCEPT !.feed_generated_at = Some(ts), !.product_count = count,
                    !.updated_at = ts]
     ELSE r : r \in table}

\* (mutant) DELETE FROM <table> without the WHERE clause
SqlDelete_All(table, shop) == {}

\* DELETE FROM <table> WHERE shop = ?
SqlDelete(table, shop) == {r \in table : r.shop # shop}

(***************************************************************************)
(* Inputs of updateFeedSettings: partial settings objects.                 *)
(***************************************************************************)
UpdateInputs ==
  { << >>,
    [shop |-> "b.myshopify.com"],
    [enable_search |-> FALSE, return_deadline_days |-> 0, store_country |-> ""],
    [seller_name |-> "Acme", accepts_returns |-> FALSE,
     return_policy_url |-> "https://acme.example/returns"] }

(***************************************************************************)
(* Strings.  TLC evaluates Len, Head, Tail, SubSeq and \o on strings, so   *)
(* the text functions of the mapper are computed character by character.   *)
(***************************************************************************)
StartsWith(s, p) == Len(s) >= Len(p) /\ SubSeq(s, 1, Len(p)) = p
EndsWith(s, p) == Len(s) >= Len(p) /\ SubSeq(s, Len(s) - Len(p) + 1, Len(s)) = p
Drop(s, n) == SubSeq(s, n + 1, Len(s))

\* String.prototype.replace(pattern /g, rep) for a literal pattern
RECURSIVE ReplaceAll(_, _, _)
ReplaceAll(s, pat, rep) ==
  IF s = "" THEN ""
  ELSE IF StartsWith(s, pat) THEN rep \o ReplaceAll(Drop(s, Len(pat)), pat, rep)
  ELSE Head(s) \o ReplaceAll(Tail(s), pat, rep)

\* url.replace(/\/$/, "")
StripTrailingSlash(s) == IF EndsWith(s, "/") THEN SubSeq(s, 1, Len(s) - 1) ELSE s

\* String.prototype.split(sep) for a one-character separator: the pieces
\* between consecutive occurrences of sep (one piece, s itself, when there
\* is none)
Split(s, sep) ==
  LET at == {i \in 1..Len(s) : SubSeq(s, i, i) = sep}
      n == Cardinality(at)
      Nth(k) == IF k = 0 THEN 0
                ELSE IF k = n + 1 THEN Len(s) + 1
                ELSE CHOOSE i \in at : Cardinality({j \in at : j < i}) = k - 1
  IN [k \in 1..(n + 1) |-> SubSeq(s, Nth(k - 1) + 1, Nth(k) - 1)]

\* Array.prototype.join(sep)
RECURSIVE Join(_, _)
Join(strs, sep) ==
  IF strs = << >> THEN ""
  ELSE IF Len(strs) = 1 THEN strs[1]
  ELSE strs[1] \o sep \o Join(Tail(strs), sep)

\* position of the first occurrence of the character c in s, 0 if none
RECURSIVE IndexOf(_, _)
IndexOf(s, c) ==
  IF s = "" THEN 0
  ELSE IF Head(s) = c THEN 1
  ELSE LET i == IndexOf(Tail(s), c) IN IF i = 0 THEN 0 ELSE i + 1

UpperChars == "ABCDEFGHIJKLMNOPQRSTUVWXYZ"
LowerChars == "abcdefghijklmnopqrstuvwxyz"
\* String.prototype.toLowerCase
RECURSIVE ToLowerCase(_)
ToLowerCase(s) ==
  IF s = "" THEN ""
  ELSE LET i == IndexOf(UpperChars, Head(s))
       IN (IF i = 0 THEN Head(s) ELSE SubSeq(LowerChars, i, i)) \o ToLowerCase(Tail(s))

Digits == "0123456789"
IsDigit(c) == IndexOf(Digits, c) # 0
DigitVal(c) == IndexOf(Digits, c) - 1

\* String(n) for a non-negative integer
NumToString(n) == ToString(n)

(***************************************************************************)
(* parseFloat on decimal strings.  A number is kept in ten-thousandths; a  *)
(* string that does not start with a digit parses to NaN.                  *)
(***************************************************************************)
FracDigits == 4
NaN == [nan |-> TRUE, v |-> 0]
RECURSIVE ParseInt(_, _)
ParseInt(s, acc) ==
  IF s = "" \/ ~IsDigit(Head(s)) THEN [v |-> acc, rest |-> s]
  ELSE ParseInt(Tail(s), acc * 10 + DigitVal(Head(s)))
RECURSIVE ParseFrac(_, _, _)
ParseFrac(s, acc, left) ==
  IF left = 0 THEN acc
  ELSE IF s = "" \/ ~IsDigit(Head(s)) THEN ParseFrac(s, acc * 10, left - 1)
  ELSE ParseFrac(Tail(s), acc * 10 + DigitVal(Head(s)), left - 1)
RECURSIVE Pow10(_)
Pow10(n) == IF n = 0 THEN 1 ELSE 10 * Pow10(n - 1)
parseFloat(s) ==
  IF s = "" \/ ~(IsDigit(Head(s)) \/ (Head(s) = "." /\ Len(s) > 1 /\ IsDigit(Head(Tail(s)))))
    THEN NaN
    ELSE LET ip == ParseInt(s, 0)
             fr == IF StartsWith(ip.rest, ".")
                     THEN ParseFrac(Tail(ip.rest), 0, FracDigits) ELSE 0
         IN [nan |-> FALSE, v |-> ip.v * Pow10(FracDigits) + fr]
\* (mutant) a >= b
NumGt_OrEqual(a, b) == ~a.nan /\ ~b.nan /\ a.v >= b.v

\* a > b on numbers: false when either is NaN
NumGt(a, b) == ~a.nan /\ ~b.nan /\ a.v > b.v

(***************************************************************************)
(* feed-mapper.server.ts: field derivers.                                  *)
(***************************************************************************)
\* A Shopify GID "gid://shopify/Product/123456" reduced to "123456".
extractShopifyId(gid) == LET parts == Split(gid, "/") IN parts[Len(parts)]

\* (mutant) the inventory policy is not looked at
getAvailability_FlagOnly(variant) ==
  IF variant.availableForSale THEN "in_stock" ELSE "out_of_stock"

getAvailability(variant) ==
  IF variant.inventoryPolicy = "CONTINUE" THEN "in_stock"
  ELSE IF variant.availableForSale THEN "in_stock"
  ELSE IF variant.inventoryQuantity # None /\ variant.inventoryQuantity[1] <= 0
    THEN "out_of_stock"
  ELSE IF variant.availableForSale THEN "in_stock" ELSE "out_of_stock"

buildProductUrl(shopUrl, handle) ==
  StripTrailingSlash(shopUrl) \o "/products/" \o handle

mapWeightUnit(unit) ==
  IF unit = "KILOGRAMS" THEN "kg"
  ELSE IF unit = "GRAMS" THEN "g"
  ELSE IF unit = "POUNDS" THEN "lb"
  ELSE IF unit = "OUNCES" THEN "oz"
  ELSE "lb"

\* JSON.stringify of a string: quotes, with '"', '\' and line breaks escaped
RECURSIVE JsonEscape(_)
JsonEscape(s) ==
  IF s = "" THEN ""
  ELSE (IF Head(s) = "\"" THEN "\\\""
        ELSE IF Head(s) = "\\" THEN "\\\\"
        ELSE IF Head(s) = "\n" THEN "\\n"
        ELSE IF Head(s) = "\r" THEN "\\r"
        ELSE IF Head(s) = "\t" THEN "\\t"
        ELSE Head(s)) \o JsonEscape(Tail(s))
JsonString(s) == "\"" \o JsonEscape(s) \o "\""

\* The dictionary buildVariantDict returns, as its list of (key, value) pairs
\* in insertion order: a repeated key keeps its first position and takes the
\* last value.
RECURSIVE DictPut(_, _, _)
DictPut(pairs, k, v) ==
  IF pairs = << >> THEN <<[name |-> k, value |-> v]>>
  ELSE IF pairs[1].name = k THEN <<[name |-> k, value |-> v]>> \o Tail(pairs)
  ELSE <<pairs[1]>> \o DictPut(Tail(pairs), k, v)
RECURSIVE DictOf(_, _)
DictOf(opts, acc) ==
  IF opts = << >> THEN acc
  ELSE DictOf(Tail(opts), DictPut(acc, ToLowerCase(opts[1].name), opts[1].value))

\* (mutant) the single pair is recognised by its name "Title"
buildVariantDict_ByName(variant) ==
  IF \/ Len(variant.selectedOptions) = 0
     \/ (Len(variant.selectedOptions) = 1
         /\ variant.selectedOptions[1].name = "Title")
    THEN None
    ELSE Some(DictOf(variant.selectedOptions, << >>))

\* None for undefined, Some(pairs) for a dictionary
buildVariantDict(variant) ==
  IF \/ Len(variant.selectedOptions) = 0
     \/ (Len(variant.selectedOptions) = 1
         /\ variant.selectedOptions[1].value = "Default Title")
    THEN None
    ELSE Some(DictOf(variant.selectedOptions, << >>))

RECURSIVE JsonPairs(_)
JsonPairs(pairs) ==
  IF pairs = << >> THEN ""
  ELSE JsonString(pairs[1].name) \o ":" \o JsonString(pairs[1].value)
       \o (IF Len(pairs) > 1 THEN "," ELSE "") \o JsonPairs(Tail(pairs))
\* JSON.stringify(variantDict)
StringifyDict(pairs) == "{" \o JsonPairs(pairs) \o "}"

\* NULL for undefined
extractOption(variant, optionName) ==
  LET hits == SelectSeq(variant.selectedOptions,
                LAMBDA o : ToLowerCase(o.name) = ToLowerCase(optionName))
  IN IF hits # << >> /\ hits[1].value # "Default Title" THEN hits[1].value ELSE NULL

(***************************************************************************)
(* stripHtml                                                               *)
(***************************************************************************)
\* .replace(/<[^>]*>/g, " ")
RECURSIVE StripTags(_)
StripTags(s) ==
  IF s = "" THEN ""
  ELSE IF Head(s) = "<" /\ IndexOf(Tail(s), ">") # 0
    THEN " " \o StripTags(Drop(Tail(s), IndexOf(Tail(s), ">")))
  ELSE Head(s) \o StripTags(Tail(s))

IsSpace(c) == c \in {" ", "\t", "\n", "\r", "\f"}
\* .replace(/\s+/g, " ")
RECURSIVE CollapseSpace(_)
CollapseSpace(s) ==
  IF s = "" THEN ""
  ELSE IF IsSpace(Head(s))
    THEN IF Len(s) > 1 /\ IsSpace(Head(Tail(s)))
           THEN CollapseSpace(Tail(s))
           ELSE " " \o CollapseSpace(Tail(s))
  ELSE Head(s) \o CollapseSpace(Tail(s))
\* .trim()
RECURSIVE TrimLeft(_)
TrimLeft(s) == IF s # "" /\ IsSpace(Head(s)) THEN TrimLeft(Tail(s)) ELSE s
RECURSIVE TrimRight(_)
TrimRight(s) ==
  IF s # "" /\ IsSpace(SubSeq(s, Len(s), Len(s)))
    THEN TrimRight(SubSeq(s, 1, Len(s) - 1)) ELSE s
Trim(s) == TrimRight(TrimLeft(s))

stripHtml(html) ==
  Trim(CollapseSpace(
    ReplaceAll(ReplaceAll(ReplaceAll(ReplaceAll(ReplaceAll(ReplaceAll(
      StripTags(html),
      "&nbsp;", " "), "&amp;", "&"), "&lt;", "<"), "&gt;", ">"),
      "&quot;", "\""), "&#39;", "'")))

(***************************************************************************)
(* mapVariantToFeedItem.  A feed item is a record that has a field only    *)
(* when the object literal has the key.  The result is the item, a skip    *)
(* (null) or a throw (TypeError on an undefined shop URL or description).  *)
(***************************************************************************)
Opt(cond, rec) == IF cond THEN rec ELSE << >>

Skip == [kind |-> "skip", item |-> << >>]
Throw == [kind |-> "throw", item |-> << >>]

mapVariantToFeedItem(product, variant, shopInfo, settings) ==
  IF product.status # "ACTIVE" THEN Skip
  ELSE
  LET productId == extractShopifyId(product.id)
      variantId == extractShopifyId(variant.id)
      shopUrl == Or(settings.seller_url, Or(shopInfo.primaryDomainUrl, shopInfo.url))
  IN IF shopUrl = NULL THEN Throw
  ELSE
  LET cleanShopUrl == StripTrailingSlash(shopUrl)
      productUrl == Or(product.onlineStoreUrl,
                       buildProductUrl(cleanShopUrl, product.handle))
      variantImage == variant.image
      productImages == product.images
      mainImage == Or(variantImage,
                      Or(IF productImages = << >> THEN NULL ELSE productImages[1], ""))
  IN IF ~Truthy(mainImage) THEN Skip
  ELSE IF ~Truthy(product.description) /\ product.descriptionHtml = NULL THEN Throw
  ELSE
  LET additionalImages == SelectSeq(productImages, LAMBDA url : url # mainImage)
      description == Or(product.description,
                        Or(stripHtml(product.descriptionHtml), product.title))
      currency == Or(shopInfo.currencyCode, "USD")
      hasVariations ==
        \/ Len(product.variants) > 1
        \/ (Len(variant.selectedOptions) > 0
            /\ variant.selectedOptions[1].value # "Default Title")
      variantDict == buildVariantDict(variant)
      onSale == /\ Truthy(variant.compareAtPrice)
                /\ NumGt(parseFloat(variant.compareAtPrice), parseFloat(variant.price))
      fallbackId == productId \o "-" \o variantId
      item ==
        [is_eligible_search |-> settings.enable_search,
         is_eligible_checkout |-> settings.enable_checkout,
         item_id |-> Or(variant.sku, fallbackId),
         title |-> IF hasVariations
                     THEN product.title \o " - " \o variant.title
                     ELSE product.title,
         description |-> description,
         url |-> productUrl,
         condition |-> "new",
         product_category |-> Or(product.productType, "Uncategorized"),
         brand |-> Or(product.vendor, Or(settings.seller_name, "")),
         image_url |-> mainImage,
         price |-> IF onSale THEN variant.compareAtPrice \o " " \o currency
                             ELSE variant.price \o " " \o currency,
         availability |-> getAvailability(variant),
         group_id |-> productId,
         listing_has_variations |-> hasVariations,
         item_group_title |-> product.title,
         offer_id |-> Or(variant.sku, fallbackId),
         seller_name |-> Or(settings.seller_name, Or(shopInfo.name, "")),
         seller_url |-> cleanShopUrl,
         target_countries |-> Or(settings.target_countries, "US"),
         store_country |-> Or(settings.store_country, Or(shopInfo.countryCodeV2, "US"))]
        @@ Opt(Len(additionalImages) > 0,
               [additional_image_urls |-> Join(additionalImages, ",")])
        @@ Opt(onSale, [sale_price |-> variant.price \o " " \o currency])
        @@ Opt(variantDict # None,
               [variant_dict |-> StringifyDict(
                  IF variantDict = None THEN << >> ELSE variantDict[1])])
        @@ Opt(Truthy(extractOption(variant, "color")),
               [color |-> extractOption(variant, "color")])
        @@ Opt(Truthy(extractOption(variant, "size")),
               [size |-> extractOption(variant, "size")])
        @@ Opt(variant.weight # None /\ variant.weight # Some(0)
                 /\ variant.weight[1] > 0,
               [weight |-> NumToString(
                             IF variant.weight = None THEN 0 ELSE variant.weight[1]),
                item_weight_unit |-> mapWeightUnit(variant.weightUnit)])
        @@ Opt(Truthy(settings.privacy_policy_url),
               [seller_privacy_policy |-> settings.privacy_policy_url])
        @@ Opt(Truthy(settings.terms_of_service_url),
               [seller_tos |-> settings.terms_of_service_url])
        @@ Opt(Truthy(settings.return_policy_url),
               [accepts_returns |-> settings.accepts_returns,
                return_deadline_in_days |-> settings.return_deadline_days,
                accepts_exchanges |-> settings.accepts_exchanges,
                return_policy |-> settings.return_policy_url])
  IN [kind |-> "item", item |-> item]

(***************************************************************************)
(* What the upstream Admin API can answer: shop info and catalog products. *)
(***************************************************************************)
ShopAcme ==
  [name |-> "Acme Store", url |-> "https://acme.myshopify.com",
   primaryDomainUrl |-> "https://acme.example/", currencyCode |-> "USD",
   countryCodeV2 |-> "CA", shipsToCountries |-> <<"CA", "US">>]
\* a shop payload without url, primary domain and currency
ShopBare ==
  [name |-> "Bare", url |-> NULL, primaryDomainUrl |-> NULL,
   currencyCode |-> NULL, countryCodeV2 |-> NULL, shipsToCountries |-> << >>]
ShopInfos == {ShopAcme, ShopBare}

DefaultVariant ==
  [id |-> "gid://shopify/ProductVariant/201", title |-> "Default Title",
   sku |-> NULL, price |-> "10.00", compareAtPrice |-> NULL,
   availableForSale |-> TRUE, inventoryQuantity |-> Some(5),
   inventoryPolicy |-> "DENY", weight |-> None, weightUnit |-> "KILOGRAMS",
   selectedOptions |-> <<[name |-> "Title", value |-> "Default Title"]>>,
   image |-> NULL]
RedVariant ==
  [id |-> "gid://shopify/ProductVariant/202", title |-> "Red",
   sku |-> "SHIRT-RED", price |-> "8.00", compareAtPrice |-> "10.00",
   availableForSale |-> FALSE, inventoryQuantity |-> Some(0),
   inventoryPolicy |-> "DENY", weight |-> Some(2), weightUnit |-> "GRAMS",
   selectedOptions |-> <<[name |-> "Color", value |-> "Red"]>>,
   image |-> "https://cdn.example/red.jpg"]
BlueVariant ==
  [id |-> "gid://shopify/ProductVariant/203", title |-> "Blue",
   sku |-> "", price |-> "9.50", compareAtPrice |-> "9.50",
   availableForSale |-> FALSE, inventoryQuantity |-> None,
   inventoryPolicy |-> "CONTINUE", weight |-> Some(0), weightUnit |-> "STONES",
   selectedOptions |-> <<[name |-> "Color", value |-> "Blue"]>>,
   image |-> NULL]

Mug ==
  [id |-> "gid://shopify/Product/101", title |-> "Mug",
   description |-> "", descriptionHtml |-> "<p>A&nbsp;mug</p>",
   handle |-> "mug", vendor |-> "", productType |-> "", status |-> "ACTIVE",
   onlineStoreUrl |-> NULL, images |-> <<"https://x/m.jpg">>,
   variants |-> <<DefaultVariant>>]
Lamp ==
  [id |-> "gid://shopify/Product/102", title |-> "Lamp",
   description |-> "A lamp", descriptionHtml |-> "<p>A lamp</p>",
   handle |-> "lamp", vendor |-> "Lumen", productType |-> "Lighting",
   status |-> "DRAFT", onlineStoreUrl |-> NULL,
   images |-> <<"https://x/l.jpg">>, variants |-> <<DefaultVariant>>]
\* no product images: the Blue variant has no resolvable image
Shirt ==
  [id |-> "gid://shopify/Product/103", title |-> "Shirt",
   description |-> "A shirt", descriptionHtml |-> "<p>A shirt</p>",
   handle |-> "shirt", vendor |-> "Loom", productType |-> "Apparel",
   status |-> "ACTIVE", onlineStoreUrl |-> "https://acme.example/products/shirt",
   images |-> << >>, variants |-> <<RedVariant, BlueVariant>>]
CatalogProducts == {Lamp, Shirt}

\* Inputs for direct calls of the mapper: a shop payload with a URL but no
\* currency, variants covering the option and compare-at cases, an archived
\* product and a product with several images.
ShopPlain ==
  [name |-> "", url |-> "https://plain.myshopify.com", primaryDomainUrl |-> NULL,
   currencyCode |-> NULL, countryCodeV2 |-> NULL, shipsToCountries |-> << >>]
MapperShopInfos == ShopInfos \cup {ShopPlain}

\* no option pairs, empty compare-at
PlainVariant ==
  [id |-> "gid://shopify/ProductVariant/204", title |-> "Plain",
   sku |-> "PLAIN", price |-> "12.00", compareAtPrice |-> "",
   availableForSale |-> FALSE, inventoryQuantity |-> Some(3),
   inventoryPolicy |-> "DENY", weight |-> Some(12), weightUnit |-> "OUNCES",
   selectedOptions |-> << >>, image |-> NULL]
\* a single pair with the sentinel value under another name, compare-at
\* below the price
SentinelVariant ==
  [id |-> "gid://shopify/ProductVariant/205", title |-> "Default Title",
   sku |-> NULL, price |-> "9.00", compareAtPrice |-> "7.00",
   availableForSale |-> TRUE, inventoryQuantity |-> Some(1),
   inventoryPolicy |-> "DENY", weight |-> None, weightUnit |-> "POUNDS",
   selectedOptions |-> <<[name |-> "Size", value |-> "Default Title"]>>,
   image |-> "https://cdn.example/s.jpg"]
\* two pairs, the first with the sentinel value; compare-at above the price
\* numerically but not as a string
TwoOptionVariant ==
  [id |-> "gid://shopify/ProductVariant/206", title |-> "M",
   sku |-> "TWO-M", price |-> "9.75", compareAtPrice |-> "10.5",
   availableForSale |-> TRUE, inventoryQuantity |-> Some(4),
   inventoryPolicy |-> "DENY", weight |-> None, weightUnit |-> "GRAMS",
   selectedOptions |-> <<[name |-> "Color", value |-> "Default Title"],
                         [name |-> "SIZE", value |-> "M"]>>,
   image |-> NULL]
\* the same option name twice, up to case; not sellable, quantity unknown
RepeatVariant ==
  [id |-> "gid://shopify/ProductVariant/207", title |-> "Crimson",
   sku |-> "REP", price |-> "3.00", compareAtPrice |-> NULL,
   availableForSale |-> FALSE, inventoryQuantity |-> None,
   inventoryPolicy |-> "DENY", weight |-> None, weightUnit |-> "GRAMS",
   selectedOptions |-> <<[name |-> "Color", value |-> "Red"],
                         [name |-> "color", value |-> "Crimson"]>>,
   image |-> NULL]

Vase ==
  [id |-> "gid://shopify/Product/104", title |-> "Vase",
   description |-> "A vase", descriptionHtml |-> "<p>A vase</p>",
   handle |-> "vase", vendor |-> "Clay", productType |-> "Decor",
   status |-> "ARCHIVED", onlineStoreUrl |-> "https://acme.example/products/vase",
   images |-> <<"https://x/v.jpg">>, variants |-> <<TwoOptionVariant, RedVariant>>]
\* the plain-text description holds a line break and quotes
Poster ==
  [id |-> "gid://shopify/Product/105", title |-> "Poster",
   description |-> "Big\nposter \"A1\"", descriptionHtml |-> "<p>Big poster</p>",
   handle |-> "poster", vendor |-> "", productType |-> "", status |-> "ACTIVE",
   onlineStoreUrl |-> NULL,
   images |-> <<"https://x/p1.jpg", "https://x/p2.jpg">>,
   variants |-> <<PlainVariant, SentinelVariant, TwoOptionVariant,
                  BlueVariant, RepeatVariant>>]
\* products with a single variant: one that declares no options, one with
\* a real option
Card ==
  [id |-> "gid://shopify/Product/106", title |-> "Card",
   description |-> "A card", descriptionHtml |-> "<p>A card</p>",
   handle |-> "card", vendor |-> "Pulp", productType |-> "Paper",
   status |-> "ACTIVE", onlineStoreUrl |-> NULL,
   images |-> <<"https://x/c.jpg">>, variants |-> <<PlainVariant>>]
Scarf ==
  [id |-> "gid://shopify/Product/107", title |-> "Scarf",
   description |-> "A scarf", descriptionHtml |-> "<p>A scarf</p>",
   handle |-> "scarf", vendor |-> "Loom", productType |-> "Apparel",
   status |-> "ACTIVE", onlineStoreUrl |-> NULL,
   images |-> << >>, variants |-> <<RedVariant>>]
MapperProducts == {Mug, Lamp, Shirt, Vase, Poster, Card, Scarf}

(***************************************************************************)
(* mapProductsToFeed and feedItemsToJsonl.  The inner loop over a product's *)
(* variants and JSON.stringify of an item are pure; their values on the    *)
(* input universe are tabulated once (VariantsTable, JsonTable) and looked *)
(* up, anything outside the tables is computed directly.                   *)
(***************************************************************************)
\* (mutant) the loop maps every product as if it were ACTIVE
RECURSIVE MapVariants_AnyStatus(_, _, _, _)
MapVariants_AnyStatus(product, variants, shopInfo, settings) ==
  IF variants = << >> THEN [threw |-> FALSE, items |-> << >>]
  ELSE LET r == mapVariantToFeedItem([product EXCEPT !.status = "ACTIVE"],
                                     variants[1], shopInfo, settings)
       IN IF r.kind = "throw" THEN [threw |-> TRUE, items |-> << >>]
          ELSE LET rest == MapVariants_AnyStatus(product, Tail(variants), shopInfo, settings)
               IN [threw |-> rest.threw,
                   items |-> IF rest.threw THEN << >>
                             ELSE (IF r.kind = "item" THEN <<r.item>> ELSE << >>)
                                  \o rest.items]

\* (mutant) the loop falls back to a placeholder image
RECURSIVE MapVariants_Placeholder(_, _, _, _)
MapVariants_Placeholder(product, variants, shopInfo, settings) ==
  IF variants = << >> THEN [threw |-> FALSE, items |-> << >>]
  ELSE LET r == mapVariantToFeedItem(
                  [product EXCEPT !.images = @ \o <<"https://x/placeholder.jpg">>],
                  variants[1], shopInfo, settings)
       IN IF r.kind = "throw" THEN [threw |-> TRUE, items |-> << >>]
          ELSE LET rest == MapVariants_Placeholder(product, Tail(variants), shopInfo, settings)
               IN [threw |-> rest.threw,
                   items |-> IF rest.threw THEN << >>
                             ELSE (IF r.kind = "item" THEN <<r.item>> ELSE << >>)
                                  \o rest.items]

\* (mutant) the returns block follows the accepts_returns flag
RECURSIVE MapVariants_ReturnsByFlag(_, _, _, _)
MapVariants_ReturnsByFlag(product, variants, shopInfo, settings) ==
  IF variants = << >> THEN [threw |-> FALSE, items |-> << >>]
  ELSE LET r == mapVariantToFeedItem(product, variants[1], shopInfo,
                  [settings EXCEPT !.return_policy_url =
                     IF settings.accepts_returns THEN Or(@, "https://x/returns")
                     ELSE NULL])
       IN IF r.kind = "throw" THEN [threw |-> TRUE, items |-> << >>]
          ELSE LET rest == MapVariants_ReturnsByFlag(product, Tail(variants),
                                                     shopInfo, settings)
               IN [threw |-> rest.threw,
                   items |-> IF rest.threw THEN << >>
                             ELSE (IF r.kind = "item" THEN <<r.item>> ELSE << >>)
                                  \o rest.items]

\* (mutant) each variant is mapped as if it were the only one of its product
RECURSIVE MapVariants_Alone(_, _, _, _)
MapVariants_Alone(product, variants, shopInfo, settings) ==
  IF variants = << >> THEN [threw |-> FALSE, items |-> << >>]
  ELSE LET r == mapVariantToFeedItem([product EXCEPT !.variants = <<variants[1]>>],
                                     variants[1], shopInfo, settings)
       IN IF r.kind = "throw" THEN [threw |-> TRUE, items |-> << >>]
          ELSE LET rest == MapVariants_Alone(product, Tail(variants), shopInfo, settings)
               IN [threw |-> rest.threw,
                   items |-> IF rest.threw THEN << >>
                             ELSE (IF r.kind = "item" THEN <<r.item>> ELSE << >>)
                                  \o rest.items]

RECURSIVE MapVariants(_, _, _, _)
MapVariants(product, variants, shopInfo, settings) ==
  IF variants = << >> THEN [threw |-> FALSE, items |-> << >>]
  ELSE LET r == mapVariantToFeedItem(product, variants[1], shopInfo, settings)
       IN IF r.kind = "throw" THEN [threw |-> TRUE, items |-> << >>]
          ELSE LET rest == MapVariants(product, Tail(variants), shopInfo, settings)
               IN [threw |-> rest.threw,
                   items |-> IF rest.threw THEN << >>
                             ELSE (IF r.kind = "item" THEN <<r.item>> ELSE << >>)
                                  \o rest.items]

\* the settings objects getFeedSettings can return for the modelled inputs
RECURSIVE UpdateClosure(_)
UpdateClosure(rows) ==
  LET more == rows \cup {UpdateSettingsRow(r, u, 0) : r \in rows, u \in UpdateInputs}
  IN IF more = rows THEN rows ELSE UpdateClosure(more)
SettingsUniverse ==
  {RowToSettings(r) : r \in UpdateClosure({DefaultSettingsRow(0, s, 0) : s \in Shops})}

VariantsTable ==
  [product \in CatalogProducts \cup MapperProducts, shopInfo \in MapperShopInfos,
   settings \in SettingsUniverse |->
     MapVariants(product, product.variants, shopInfo, settings)]

MapProduct(product, shopInfo, settings) ==
  IF <<product, shopInfo, settings>> \in DOMAIN VariantsTable
    THEN VariantsTable[product, shopInfo, settings]
    ELSE MapVariants(product, product.variants, shopInfo, settings)

\* (mutant) a product whose id comes again later in the catalog is dropped
RECURSIVE mapProductsToFeed_Dedupe(_, _, _)
mapProductsToFeed_Dedupe(products, shopInfo, settings) ==
  IF products = << >> THEN [threw |-> FALSE, items |-> << >>]
  ELSE IF \E k \in 2..Len(products) : products[k].id = products[1].id
    THEN mapProductsToFeed_Dedupe(Tail(products), shopInfo, settings)
  ELSE LET first == MapProduct(products[1], shopInfo, settings)
       IN IF first.threw THEN [threw |-> TRUE, items |-> << >>]
          ELSE LET rest == mapProductsToFeed_Dedupe(Tail(products), shopInfo, settings)
               IN [threw |-> rest.threw,
                   items |-> IF rest.threw THEN << >> ELSE first.items \o rest.items]

RECURSIVE mapProductsToFeed(_, _, _)
mapProductsToFeed(products, shopInfo, settings) ==
  IF products = << >> THEN [threw |-> FALSE, items |-> << >>]
  ELSE LET first == MapProduct(products[1], shopInfo, settings)
       IN IF first.threw THEN [threw |-> TRUE, items |-> << >>]
          ELSE LET rest == mapProductsToFeed(Tail(products), shopInfo, settings)
               IN [threw |-> rest.threw,
                   items |-> IF rest.threw THEN << >> ELSE first.items \o rest.items]

\* Keys of a feed item in the order the object literal creates them.
ItemKeyOrder ==
  <<"is_eligible_search", "is_eligible_checkout", "item_id", "title",
    "description", "url", "condition", "product_category", "brand",
    "image_url", "additional_image_urls", "price", "sale_price",
    "availability", "group_id", "listing_has_variations", "variant_dict",
    "item_group_title", "color", "size", "offer_id", "weight",
    "item_weight_unit", "seller_name", "seller_url", "seller_privacy_policy",
    "seller_tos", "accepts_returns", "return_deadline_in_days",
    "accepts_exchanges", "return_policy", "target_countries", "store_country">>
BoolKeys ==
  {"is_eligible_search", "is_eligible_checkout", "listing_has_variations",
   "accepts_returns", "accepts_exchanges"}
NumKeys == {"return_deadline_in_days"}

JsonValue(k, v) ==
  IF k \in BoolKeys THEN (IF v THEN "true" ELSE "false")
  ELSE IF k \in NumKeys THEN NumToString(v)
  ELSE JsonString(v)

\* JSON.stringify(item)
StringifyItem(item) ==
  LET present == SelectSeq(ItemKeyOrder, LAMBDA k : k \in DOMAIN item)
      members == [i \in 1..Len(present) |->
                    JsonString(present[i]) \o ":" \o JsonValue(present[i], item[present[i]])]
  IN "{" \o Join(members, ",") \o "}"

TableItems ==
  UNION {{VariantsTable[k].items[i] : i \in 1..Len(VariantsTable[k].items)} :
           k \in DOMAIN VariantsTable}
JsonTable == [item \in TableItems |-> StringifyItem(item)]
JsonOf(item) == IF item \in TableItems THEN JsonTable[item] ELSE StringifyItem(item)

\* (mutant) every record is terminated by a newline
feedItemsToJsonl_Terminated(items) ==
  Join([i \in 1..Len(items) |-> JsonOf(items[i]) \o "\n"], "")

feedItemsToJsonl(items) ==
  Join([i \in 1..Len(items) |-> JsonOf(items[i])], "\n")

(***************************************************************************)
(* Calls in flight.  pc is the statement the call is waiting on; gs is the *)
(* position of the getFeedSettings call it made (or is), si the state of   *)
(* its fetchShopInfo request, pending the DELETE statements deleteFeedData *)
(* has issued and not yet seen executed.  pre is the database as it was    *)
(* when the call was made.                                                 *)
(***************************************************************************)
NoRes == [kind |-> "none", err |-> "", val |-> None]
Ok(v) == [kind |-> "ok", err |-> "", val |-> Some(v)]
OkVoid == [kind |-> "ok", err |-> "", val |-> None]
Threw(e) == [kind |-> "threw", err |-> e, val |-> None]

\* (mutant) no catch block: the error leaves generateFeed
GenFailure_Rethrow(e) == Threw(e)

\* the value generateFeed returns from its catch block
GenFailure(e) == Ok([success |-> FALSE, productCount |-> 0, error |-> e])
GenSuccess(n) == Ok([success |-> TRUE, productCount |-> n, error |-> NULL])

Snapshot == [fs |-> feed_settings, fc |-> feed_cache]

IdleProc ==
  [op |-> "idle", pc |-> "idle", shop |-> "", updates |-> << >>,
   pre |-> [fs |-> {}, fc |-> {}], res |-> NoRes,
   gs |-> "none", settings |-> None,
   si |-> "none", shopInfo |-> None,
   products |-> << >>, cursor |-> NULL, reqs |-> 0, halted |-> FALSE,
   items |-> << >>, jsonl |-> "", count |-> 0, ts |-> 0, pending |-> {},
   ack |-> None, started |-> 0, log |-> << >>]

Init ==
  /\ feed_settings = {}
  /\ feed_settings_seq = 0
  /\ feed_cache = {}
  /\ feed_cache_seq = 0
  /\ now = MsPerSec
  /\ proc = [p \in Procs |-> IdleProc]
  /\ calls = 0
  /\ generated = {}

DbUnchanged ==
  UNCHANGED <<feed_settings, feed_settings_seq, feed_cache, feed_cache_seq, generated>>

StartCall(p, op, shop) ==
  [IdleProc EXCEPT !.op = op, !.shop = shop, !.pre = Snapshot]

CallGetFeedSettings(p, shop) ==
  /\ proc[p].op = "idle"
  /\ calls < MaxCalls
  /\ calls' = calls + 1
  /\ proc' = [proc EXCEPT ![p] =
       [StartCall(p, "getFeedSettings", shop) EXCEPT !.pc = "get", !.gs = "select"]]
  /\ DbUnchanged /\ UNCHANGED now

CallUpdateFeedSettings(p, shop, updates) ==
  /\ proc[p].op = "idle"
  /\ calls < MaxCalls
  /\ calls' = calls + 1
  /\ proc' = [proc EXCEPT ![p] =
       [StartCall(p, "updateFeedSettings", shop) EXCEPT
          !.pc = "get", !.gs = "select", !.updates = updates]]
  /\ DbUnchanged /\ UNCHANGED now

CallGenerateFeed(p, shop) ==
  /\ proc[p].op = "idle"
  /\ calls < MaxCalls
  /\ calls' = calls + 1
  /\ proc' = [proc EXCEPT ![p] =
       [StartCall(p, "generateFeed", shop) EXCEPT
          !.pc = "par", !.gs = "select", !.si = "pending"]]
  /\ DbUnchanged /\ UNCHANGED now

CallGetCachedFeed(p, shop) ==
  /\ proc[p].op = "idle"
  /\ calls < MaxCalls
  /\ calls' = calls + 1
  /\ proc' = [proc EXCEPT ![p] =
       [StartCall(p, "getCachedFeed", shop) EXCEPT !.pc = "select"]]
  /\ DbUnchanged /\ UNCHANGED now

CallDeleteFeedData(p, shop) ==
  /\ proc[p].op = "idle"
  /\ calls < MaxCalls
  /\ calls' = calls + 1
  /\ proc' = [proc EXCEPT ![p] =
       [StartCall(p, "deleteFeedData", shop) EXCEPT
          !.pc = "delete", !.pending = {"feed_settings", "feed_cache"}]]
  /\ DbUnchanged /\ UNCHANGED now

(***************************************************************************)
(* getFeedSettings                                                         *)
(***************************************************************************)
\* What the caller does when its getFeedSettings call settles.  pr is the
\* call with gs and settings already set; err is "" on success.
AfterGet(pr, err) ==
  IF pr.op = "getFeedSettings"
    THEN [pr EXCEPT !.pc = "done",
                    !.res = IF err = "" THEN Ok(pr.settings[1]) ELSE Threw(err)]
  ELSE IF pr.op = "updateFeedSettings"
    THEN IF err = "" THEN [pr EXCEPT !.pc = "build"]
         ELSE [pr EXCEPT !.pc = "done", !.res = Threw(err)]
  ELSE IF pr.op = "autoPopulateSettings"
    \* inside its updateFeedSettings call, or its closing getFeedSettings
    THEN IF err # "" THEN [pr EXCEPT !.pc = "done", !.res = Threw(err)]
         ELSE IF pr.pc = "get" THEN [pr EXCEPT !.pc = "build"]
         ELSE [pr EXCEPT !.pc = "done", !.res = Ok(pr.settings[1])]
  ELSE \* generateFeed: the Promise.all of fetchShopInfo and getFeedSettings
    IF pr.pc # "par" THEN pr
    ELSE IF err # "" THEN [pr EXCEPT !.pc = "done", !.res = GenFailure(err)]
    ELSE IF pr.si = "ok" THEN [pr EXCEPT !.pc = "fetch"]
    ELSE pr

\* SELECT * FROM feed_settings WHERE shop = ?  (.first())
GetSelect(p) ==
  LET pr == proc[p]
      rows == SettingsRowsOf(feed_settings, pr.shop)
  IN /\ pr.gs = "select"
     /\ \/ proc' = [proc EXCEPT ![p] =
              AfterGet([pr EXCEPT !.gs = "threw"], "D1_ERROR")]
        \/ /\ rows # {}
           /\ proc' = [proc EXCEPT ![p] =
                AfterGet([pr EXCEPT !.gs = "ok",
                   !.settings = Some(RowToSettings(CHOOSE r \in rows : TRUE))], "")]
        \/ /\ rows = {}
           /\ proc' = [proc EXCEPT ![p].gs = "insert"]
     /\ DbUnchanged /\ UNCHANGED <<now, calls>>

\* INSERT INTO feed_settings (...) VALUES (?, 1, 0, 'US', 'US')
SqlInsertDefault(table, id, shop, epochMs) ==
  table \cup {DefaultSettingsRow(id, shop, epochMs)}

GetInsert(p) ==
  LET pr == proc[p]
  IN /\ pr.gs = "insert"
     /\ \/ /\ proc' = [proc EXCEPT ![p] =
                AfterGet([pr EXCEPT !.gs = "threw"], "D1_ERROR")]
           /\ UNCHANGED <<feed_settings, feed_settings_seq>>
        \/ /\ UniqueViolation(feed_settings, pr.shop)
           /\ proc' = [proc EXCEPT ![p] =
                AfterGet([pr EXCEPT !.gs = "threw"], "SQLITE_CONSTRAINT")]
           /\ UNCHANGED <<feed_settings, feed_settings_seq>>
        \/ /\ ~UniqueViolation(feed_settings, pr.shop)
           /\ feed_settings_seq' = feed_settings_seq + 1
           /\ feed_settings' =
                SqlInsertDefault(feed_settings, feed_settings_seq + 1, pr.shop, UnixEpochMs)
           /\ proc' = [proc EXCEPT ![p] =
                AfterGet([pr EXCEPT !.gs = "ok",
                   !.settings = Some(DefaultSettings(pr.shop))], "")]
     /\ UNCHANGED <<feed_cache, feed_cache_seq, now, calls, generated>>

(***************************************************************************)
(* updateFeedSettings                                                      *)
(***************************************************************************)
\* (mutant) updated_at is pushed before the emptiness test
UpdateFieldsOf_WithStamp(updates) ==
  (DOMAIN updates \cap SettingsFields) \cup {"updated_at"}

\* the SET list: the whitelisted fields of `updates` that are not undefined
UpdateFieldsOf(updates) == DOMAIN updates \cap SettingsFields

\* What the caller does when updateFeedSettings resolves: the call is done,
\* or autoPopulateSettings goes on to return getFeedSettings(db, shop)
AfterUpdate(pr) ==
  IF pr.op = "autoPopulateSettings"
    THEN [pr EXCEPT !.pc = "reget", !.gs = "select"]
    ELSE [pr EXCEPT !.pc = "done", !.res = OkVoid]

UpdateBuild(p) ==
  LET pr == proc[p]
  IN /\ pr.op \in {"updateFeedSettings", "autoPopulateSettings"} /\ pr.pc = "build"
     /\ proc' = [proc EXCEPT ![p] =
          IF UpdateFieldsOf(pr.updates) = {}
            THEN AfterUpdate(pr)
            ELSE [pr EXCEPT !.pc = "update", !.ts = DateNow]]
     /\ DbUnchanged /\ UNCHANGED <<now, calls>>

UpdateRun(p) ==
  LET pr == proc[p]
  IN /\ pr.op \in {"updateFeedSettings", "autoPopulateSettings"} /\ pr.pc = "update"
     /\ \/ /\ proc' = [proc EXCEPT ![p].pc = "done", ![p].res = Threw("D1_ERROR")]
           /\ UNCHANGED feed_settings
        \/ /\ feed_settings' =
                SqlUpdateSettings(feed_settings, pr.shop, pr.updates, pr.ts)
           /\ proc' = [proc EXCEPT ![p] = AfterUpdate(pr)]
     /\ UNCHANGED <<feed_settings_seq, feed_cache, feed_cache_seq, now, calls, generated>>

(***************************************************************************)
(* autoPopulateSettings: shop info and policies are fetched, written with  *)
(* updateFeedSettings, and the settings are read back.                     *)
(***************************************************************************)
\* fetchShopPolicies: no request is made, every policy is null
fetchShopPolicies ==
  [privacyPolicy |-> NULL, termsOfService |-> NULL, refundPolicy |-> NULL]

\* the updates object built from shop info and policies
AutoUpdates(shop, shopInfo, policies) ==
  LET shopUrl == Or(shopInfo.primaryDomainUrl, Or(shopInfo.url, "https://" \o shop))
  IN [seller_name |-> shopInfo.name,
      seller_url |-> StripTrailingSlash(shopUrl),
      store_country |-> Or(shopInfo.countryCodeV2, "US"),
      target_countries |-> Or(Join(shopInfo.shipsToCountries, ","), "US")]
     @@ Opt(Truthy(policies.privacyPolicy), [privacy_policy_url |-> policies.privacyPolicy])
     @@ Opt(Truthy(policies.termsOfService),
            [terms_of_service_url |-> policies.termsOfService])
     @@ Opt(Truthy(policies.refundPolicy), [return_policy_url |-> policies.refundPolicy])

CallAutoPopulateSettings(p, shop) ==
  /\ proc[p].op = "idle"
  /\ calls < MaxCalls
  /\ calls' = calls + 1
  /\ proc' = [proc EXCEPT ![p] =
       [StartCall(p, "autoPopulateSettings", shop) EXCEPT !.pc = "info"]]
  /\ DbUnchanged /\ UNCHANGED now

\* the Promise.all settles: fetchShopInfo threw, or the updates are built
\* and updateFeedSettings starts with its getFeedSettings call
AutoFetch(p) ==
  LET pr == proc[p]
  IN /\ pr.op = "autoPopulateSettings" /\ pr.pc = "info"
     /\ \/ proc' = [proc EXCEPT ![p].pc = "done",
                                 ![p].res = Threw("fetchShopInfo failed")]
        \/ \E info \in ShopInfos :
             proc' = [proc EXCEPT ![p] =
               [pr EXCEPT !.shopInfo = Some(info),
                          !.updates = AutoUpdates(pr.shop, info, fetchShopPolicies),
                          !.pc = "get", !.gs = "select"]]
     /\ DbUnchanged /\ UNCHANGED <<now, calls>>

(***************************************************************************)
(* deleteFeedData: both DELETE statements are issued at once (Promise.all) *)
(* and execute in either order; the call rejects on the first failure.     *)
(***************************************************************************)
AfterDelete(pr, table, failed) ==
  LET left == pr.pending \ {table}
      res == IF pr.res.kind # "none" THEN pr.res
             ELSE IF failed THEN Threw("D1_ERROR")
             ELSE IF left = {} THEN OkVoid
             ELSE NoRes
  IN [pr EXCEPT !.pending = left, !.res = res,
                !.pc = IF res.kind = "none" THEN "delete" ELSE "done"]

DeleteSettings(p) ==
  LET pr == proc[p]
  IN /\ "feed_settings" \in pr.pending
     /\ \/ /\ proc' = [proc EXCEPT ![p] = AfterDelete(pr, "feed_settings", TRUE)]
           /\ UNCHANGED feed_settings
        \/ /\ feed_settings' = SqlDelete(feed_settings, pr.shop)
           /\ proc' = [proc EXCEPT ![p] = AfterDelete(pr, "feed_settings", FALSE)]
     /\ UNCHANGED <<feed_settings_seq, feed_cache, feed_cache_seq, now, calls, generated>>

DeleteCache(p) ==
  LET pr == proc[p]
  IN /\ "feed_cache" \in pr.pending
     /\ \/ /\ proc' = [proc EXCEPT ![p] = AfterDelete(pr, "feed_cache", TRUE)]
           /\ UNCHANGED <<feed_cache, generated>>
        \/ /\ feed_cache' = SqlDelete(feed_cache, pr.shop)
           /\ generated' = generated \ {pr.shop}
           /\ proc' = [proc EXCEPT ![p] = AfterDelete(pr, "feed_cache", FALSE)]
     /\ UNCHANGED <<feed_settings, feed_settings_seq, feed_cache_seq, now, calls>>

(***************************************************************************)
(* getCachedFeed                                                           *)
(***************************************************************************)
\* null (None) or the object getCachedFeed returns for the selected rows
CachedFeedOf(rows) ==
  IF rows = {} THEN None
  ELSE LET row == CHOOSE r \in rows : TRUE
       IN IF ~Truthy(row.feed_data) THEN None
          ELSE Some([feedData |-> row.feed_data,
                     productCount |-> row.product_count,
                     generatedAt |-> row.generated_at])

CachedSelect(p) ==
  LET pr == proc[p]
  IN /\ pr.op = "getCachedFeed" /\ pr.pc = "select"
     /\ \/ proc' = [proc EXCEPT ![p].pc = "done", ![p].res = Threw("D1_ERROR")]
        \/ proc' = [proc EXCEPT ![p].pc = "done",
                      ![p].res = [kind |-> "ok", err |-> "",
                                  val |-> CachedFeedOf(CacheRowsOf(feed_cache, pr.shop))]]
     /\ DbUnchanged /\ UNCHANGED <<now, calls>>

(***************************************************************************)
(* generateFeed                                                            *)
(***************************************************************************)
\* fetchShopInfo: one request, json.data.shop or a throw
FetchShopInfo(p) ==
  LET pr == proc[p]
  IN /\ pr.op = "generateFeed" /\ pr.si = "pending"
     /\ \/ proc' = [proc EXCEPT ![p] =
              IF pr.pc = "par"
                THEN [pr EXCEPT !.si = "threw", !.pc = "done",
                                !.res = GenFailure("fetchShopInfo failed")]
                ELSE [pr EXCEPT !.si = "threw"]]
        \/ \E info \in ShopInfos :
             proc' = [proc EXCEPT ![p] =
               IF pr.pc = "par"
                 THEN [pr EXCEPT !.si = "ok", !.shopInfo = Some(info),
                                 !.pc = IF pr.gs = "ok" THEN "fetch" ELSE "par"]
                 ELSE [pr EXCEPT !.si = "ok"]]
     /\ DbUnchanged /\ UNCHANGED <<now, calls>>

\* the products one page of the catalog can hold
PageContents == UNION {[1..k -> CatalogProducts] : k \in 0..MaxPageLen}
\* pageInfo.endCursor: the cursor of the last edge of the page, null if none
EndCursor(page) == IF page = << >> THEN NULL ELSE "cursor:" \o page[Len(page)].id

\* one request of the loop and its response, as the catalog saw them: the
\* cursor variable sent, and what came back
Exchange(pr, outcome, page, hasNextPage) ==
  [cursor |-> pr.cursor, outcome |-> outcome, products |-> page,
   hasNextPage |-> hasNextPage, endCursor |-> EndCursor(page)]

\* (mutant) the cursor variable is never advanced
PageReceived_KeepCursor(pr, page) ==
  [pr EXCEPT !.products = pr.products \o page, !.reqs = pr.reqs + 1,
             !.log = Append(pr.log, Exchange(pr, "page", page, TRUE))]

\* the end of an iteration whose page has hasNextPage = true
PageReceived(pr, page) ==
  [pr EXCEPT !.products = pr.products \o page,
             !.cursor = EndCursor(page), !.reqs = pr.reqs + 1,
             !.log = Append(pr.log, Exchange(pr, "page", page, TRUE))]

\* fetchAllProducts called on its own
CallFetchAllProducts(p) ==
  /\ proc[p].op = "idle"
  /\ proc' = [proc EXCEPT ![p] =
       [StartCall(p, "fetchAllProducts", "") EXCEPT !.pc = "fetch"]]
  /\ DbUnchanged /\ UNCHANGED <<now, calls>>

\* fetchAllProducts: one iteration of the while loop, i.e. one request with
\* the current cursor and its response.  The call returns (to generateFeed,
\* or to its direct caller) when hasNextPage is false or on the break.
FetchPage(p) ==
  LET pr == proc[p]
      direct == pr.op = "fetchAllProducts"
      Last(outcome, page) ==
        [pr EXCEPT !.pc = "done",
                   !.log = Append(pr.log, Exchange(pr, outcome, page, FALSE))]
      End(inGenerate, alone) ==
        IF direct THEN alone ELSE [inGenerate EXCEPT !.log = << >>]
  IN /\ pr.op \in {"generateFeed", "fetchAllProducts"} /\ pr.pc = "fetch"
     /\ pr.reqs < (IF direct THEN MaxFetchPages ELSE MaxPages)
     /\ \/ \* admin.graphql or response.json() throws
           proc' = [proc EXCEPT ![p] = End(
             [pr EXCEPT !.pc = "done", !.reqs = 0, !.cursor = NULL,
                        !.res = GenFailure("fetchAllProducts failed")],
             [Last("threw", << >>) EXCEPT !.res = Threw("fetchAllProducts failed")])]
        \/ \* !data?.products: log and break, returning what was collected
           proc' = [proc EXCEPT ![p] = End(
             [pr EXCEPT !.pc = "map", !.halted = TRUE, !.reqs = 0, !.cursor = NULL],
             [Last("no products", << >>) EXCEPT !.halted = TRUE,
                                                !.res = Ok(pr.products)])]
        \/ \* data.products without pageInfo: TypeError after the push
           proc' = [proc EXCEPT ![p] = End(
             [pr EXCEPT !.pc = "done", !.reqs = 0, !.cursor = NULL,
                        !.products = << >>,
                        !.res = GenFailure("TypeError")],
             [Last("no pageInfo", << >>) EXCEPT !.res = Threw("TypeError")])]
        \/ \E page \in PageContents, hasNextPage \in BOOLEAN :
             /\ hasNextPage => pr.reqs + 1 < (IF direct THEN MaxFetchPages ELSE MaxPages)
             /\ proc' = [proc EXCEPT ![p] =
                  IF hasNextPage
                    THEN PageReceived(pr, page)
                    ELSE End(
                      [pr EXCEPT !.products = pr.products \o page,
                                 !.cursor = NULL, !.reqs = 0, !.pc = "map"],
                      [Last("page", page) EXCEPT !.products = pr.products \o page,
                                                 !.res = Ok(pr.products \o page)])]
     /\ DbUnchanged /\ UNCHANGED <<now, calls>>

(***************************************************************************)
(* fetchAllProducts called directly, one caller                            *)
(***************************************************************************)
NextFetch == CallFetchAllProducts(1) \/ FetchPage(1)

SpecFetch == Init /\ [][NextFetch]_vars

\* mapProductsToFeed, feedItemsToJsonl and Date.now(), run without an await
GenMap(p) ==
  LET pr == proc[p]
      mapped == mapProductsToFeed(pr.products, pr.shopInfo[1], pr.settings[1])
  IN /\ pr.op = "generateFeed" /\ pr.pc = "map"
     /\ proc' = [proc EXCEPT ![p] =
          IF mapped.threw
            THEN [pr EXCEPT !.pc = "done", !.res = GenFailure("TypeError")]
            ELSE [pr EXCEPT !.pc = "cache",
                            !.jsonl = feedItemsToJsonl(mapped.items),
                            !.count = Len(mapped.items),
                            !.ts = DateNow]]
     /\ DbUnchanged /\ UNCHANGED <<now, calls>>

\* (mutant) a plain INSERT: the previous row of the shop stays
SqlReplaceCache_KeepOld(table, id, shop, feedData, productCount, generatedAt) ==
  table \cup
    {[id |-> id, shop |-> shop, feed_data |-> feedData,
      product_count |-> productCount, generated_at |-> generatedAt]}

\* (mutant) an upsert that overwrites feed_data only: count and timestamp of
\* an existing row stay
SqlReplaceCache_DataOnly(table, id, shop, feedData, productCount, generatedAt) ==
  IF {r \in table : r.shop = shop} = {}
    THEN table \cup
           {[id |-> id, shop |-> shop, feed_data |-> feedData,
             product_count |-> productCount, generated_at |-> generatedAt]}
    ELSE {IF r.shop = shop THEN [r EXCEPT !.feed_data = feedData] ELSE r : r \in table}

\* INSERT OR REPLACE INTO feed_cache (shop, feed_data, product_count,
\* generated_at) VALUES (?, ?, ?, ?): the row of the shop, if any, is deleted
\* and the new row inserted.
SqlReplaceCache(table, id, shop, feedData, productCount, generatedAt) ==
  SqlDelete(table, shop) \cup
    {[id |-> id, shop |-> shop, feed_data |-> feedData,
      product_count |-> productCount, generated_at |-> generatedAt]}

GenCacheWrite(p) ==
  LET pr == proc[p]
  IN /\ pr.op = "generateFeed" /\ pr.pc = "cache"
     /\ \/ /\ proc' = [proc EXCEPT ![p].pc = "done",
                                   ![p].res = GenFailure("D1_ERROR")]
           /\ UNCHANGED <<feed_cache, feed_cache_seq>>
        \/ /\ feed_cache_seq' = feed_cache_seq + 1
           /\ feed_cache' = SqlReplaceCache(feed_cache, feed_cache_seq + 1,
                              pr.shop, pr.jsonl, pr.count, pr.ts)
           /\ proc' = [proc EXCEPT ![p].pc = "stamp"]
     /\ UNCHANGED <<feed_settings, feed_settings_seq, now, calls, generated>>

GenStamp(p) ==
  LET pr == proc[p]
  IN /\ pr.op = "generateFeed" /\ pr.pc = "stamp"
     /\ \/ /\ proc' = [proc EXCEPT ![p].pc = "done",
                                   ![p].res = GenFailure("D1_ERROR")]
           /\ UNCHANGED <<feed_settings, generated>>
        \/ /\ feed_settings' =
                SqlStampSettings(feed_settings, pr.shop, pr.ts, pr.count)
           /\ proc' = [proc EXCEPT ![p].pc = "done", ![p].res = GenSuccess(pr.count)]
           /\ generated' = generated \cup {pr.shop}
     /\ UNCHANGED <<feed_settings_seq, feed_cache, feed_cache_seq, now, calls>>

(***************************************************************************)
(* The caller takes the result; the slot is free for the next call once    *)
(* nothing the call started is still in flight.                            *)
(***************************************************************************)
Settled(pr) ==
  /\ pr.pc = "done"
  /\ pr.gs \notin {"select", "insert"}
  /\ pr.si # "pending"
  /\ pr.pending = {}

Return(p) ==
  /\ Settled(proc[p])
  /\ proc' = [proc EXCEPT ![p] = IdleProc]
  /\ DbUnchanged /\ UNCHANGED <<now, calls>>

Step(p) ==
  \/ GetSelect(p) \/ GetInsert(p)
  \/ UpdateBuild(p) \/ UpdateRun(p)
  \/ DeleteSettings(p) \/ DeleteCache(p)
  \/ CachedSelect(p)
  \/ FetchShopInfo(p) \/ FetchPage(p) \/ GenMap(p)
  \/ GenCacheWrite(p) \/ GenStamp(p)
  \/ Return(p)

\* one caller that awaits each call before it makes the next
NextSeq ==
  \/ Tick
  \/ \E shop \in Shops :
       \/ CallGetFeedSettings(1, shop)
       \/ \E updates \in UpdateInputs : CallUpdateFeedSettings(1, shop, updates)
       \/ CallGenerateFeed(1, shop)
       \/ CallGetCachedFeed(1, shop)
       \/ CallDeleteFeedData(1, shop)
  \/ Step(1)
SpecSeq == Init /\ [][NextSeq]_vars

\* the settings page: one caller that saves settings and re-syncs them from
\* the shop, awaiting each call
NextAuto ==
  \/ Tick
  \/ \E shop \in Shops :
       \/ \E updates \in UpdateInputs : CallUpdateFeedSettings(1, shop, updates)
       \/ CallAutoPopulateSettings(1, shop)
  \/ GetSelect(1) \/ GetInsert(1)
  \/ UpdateBuild(1) \/ UpdateRun(1)
  \/ AutoFetch(1)
  \/ Return(1)
SpecAuto == Init /\ [][NextAuto]_vars

\* NProcs concurrent callers (webhook deliveries, page loads), one call each:
\* settings reads, generations and uninstalls interleave at their awaits
StepConc(p) ==
  \/ GetSelect(p) \/ GetInsert(p)
  \/ DeleteSettings(p) \/ DeleteCache(p)
  \/ FetchShopInfo(p) \/ FetchPage(p) \/ GenMap(p)
  \/ GenCacheWrite(p) \/ GenStamp(p)

Next ==
  \/ Tick
  \/ \E p \in Procs :
       \/ \E shop \in Shops :
            \/ CallGetFeedSettings(p, shop)
            \/ CallGenerateFeed(p, shop)
            \/ CallDeleteFeedData(p, shop)
       \/ StepConc(p)
Spec == Init /\ [][Next]_vars

(***************************************************************************)
(* The public feed endpoint /feed/:shop/products.jsonl (loader).           *)
(***************************************************************************)
Slugs == {"a", "b"}

\* new Date(ms).toUTCString(): an HTTP date, which has whole seconds only
toUTCString(ms) == "epoch+" \o NumToString(ms \div MsPerSec) \o "s GMT"
\* the body after stream.pipeThrough(new CompressionStream("gzip"))
Gzip(text) == "gzip(" \o text \o ")"

PlainResponse(status, body, contentType) ==
  [status |-> status, body |-> body, contentType |-> contentType,
   contentEncoding |-> NULL, lastModified |-> NULL, productCount |-> NULL]
FeedResponse(row, gzip) ==
  [status |-> 200,
   body |-> IF gzip THEN Gzip(row.feed_data) ELSE row.feed_data,
   contentType |-> "application/jsonl",
   contentEncoding |-> IF gzip THEN "gzip" ELSE NULL,
   lastModified |-> toUTCString(row.generated_at),
   productCount |-> NumToString(row.product_count)]

\* params.shop is NULL when the route has no slug
CallLoader(p, slug) ==
  /\ proc[p].op = "idle"
  /\ calls < MaxCalls
  /\ calls' = calls + 1
  /\ proc' = [proc EXCEPT ![p] =
       IF ~Truthy(slug)
         THEN [StartCall(p, "loader", "") EXCEPT
                 !.pc = "done", !.res = Ok(PlainResponse(404, "Not Found", NULL))]
         ELSE [StartCall(p, "loader", slug \o ".myshopify.com") EXCEPT !.pc = "select"]]
  /\ DbUnchanged /\ UNCHANGED now

\* the SELECT on feed_cache and the response built from its row; gzip is
\* whether the request's Accept-Encoding includes "gzip"
LoaderSelect(p) ==
  LET pr == proc[p]
      rows == CacheRowsOf(feed_cache, pr.shop)
  IN /\ pr.op = "loader" /\ pr.pc = "select"
     /\ \/ proc' = [proc EXCEPT ![p].pc = "done",
                                 ![p].res = Ok(PlainResponse(500, "Internal Server Error", NULL))]
        \/ \E gzip \in BOOLEAN :
             proc' = [proc EXCEPT ![p].pc = "done", ![p].res =
               IF rows = {} \/ ~Truthy((CHOOSE r \in rows : TRUE).feed_data)
                 THEN Ok(PlainResponse(404, "Feed not found. Generate the feed first.",
                                       "text/plain"))
                 ELSE Ok(FeedResponse(CHOOSE r \in rows : TRUE, gzip))]
     /\ DbUnchanged /\ UNCHANGED <<now, calls>>

\* one client: generations, uninstalls and feed requests, one after the other
StepServe(p) ==
  \/ GetSelect(p) \/ GetInsert(p)
  \/ DeleteSettings(p) \/ DeleteCache(p)
  \/ FetchShopInfo(p) \/ FetchPage(p) \/ GenMap(p)
  \/ GenCacheWrite(p) \/ GenStamp(p)
  \/ LoaderSelect(p)
  \/ Return(p)

NextServe ==
  \/ Tick
  \/ \E shop \in Shops : CallGenerateFeed(1, shop) \/ CallDeleteFeedData(1, shop)
  \/ \E slug \in Slugs \cup {NULL} : CallLoader(1, slug)
  \/ StepServe(1)
SpecServe == Init /\ [][NextServe]_vars

(***************************************************************************)
(* The products/create, products/update, products/delete webhook (action). *)
(* ack is the status of the Response the handler returned, started the     *)
(* number of generateFeed calls it made.  ctx.waitUntil(generateFeed(...)) *)
(* and the return that follows it run without an await in between: the     *)
(* generation goes on in the slot of the delivery after the handler has    *)
(* returned.                                                               *)
(***************************************************************************)
CallWebhook(p, shop) ==
  /\ proc[p].op = "idle"
  /\ calls < MaxCalls
  /\ calls' = calls + 1
  /\ proc' = [proc EXCEPT ![p] = [StartCall(p, "webhook", shop) EXCEPT !.pc = "auth"]]
  /\ DbUnchanged /\ UNCHANGED now

\* await authenticate.webhook(request): the delivery is accepted or the
\* call throws and the handler rejects
HookAuth(p) ==
  /\ proc[p].op = "webhook" /\ proc[p].pc = "auth"
  /\ \/ proc' = [proc EXCEPT ![p].pc = "select"]
     \/ proc' = [proc EXCEPT ![p].pc = "done", ![p].res = Threw("authenticate.webhook")]
  /\ DbUnchanged /\ UNCHANGED <<now, calls>>

\* (mutant) the handler does not look for the settings row
HookSelect_NoCheck(p) ==
  LET pr == proc[p]
  IN /\ pr.op = "webhook" /\ pr.pc = "select"
     /\ \/ proc' = [proc EXCEPT ![p].pc = "done", ![p].res = Threw("D1_ERROR")]
        \/ proc' = [proc EXCEPT ![p].pc = "admin"]
     /\ DbUnchanged /\ UNCHANGED <<now, calls>>

\* SELECT shop FROM feed_settings WHERE shop = ?; without a row the handler
\* returns at once
HookSelect(p) ==
  LET pr == proc[p]
  IN /\ pr.op = "webhook" /\ pr.pc = "select"
     /\ \/ proc' = [proc EXCEPT ![p].pc = "done", ![p].res = Threw("D1_ERROR")]
        \/ proc' = [proc EXCEPT ![p] =
             IF SettingsRowsOf(feed_settings, pr.shop) = {}
               THEN [pr EXCEPT !.pc = "done", !.res = OkVoid, !.ack = Some(200)]
               ELSE [pr EXCEPT !.pc = "admin"]]
     /\ DbUnchanged /\ UNCHANGED <<now, calls>>

\* (mutant) the handler awaits the generation before it returns
HookAdmin_Awaiting(p) ==
  LET pr == proc[p]
  IN /\ pr.op = "webhook" /\ pr.pc = "admin"
     /\ \/ proc' = [proc EXCEPT ![p] =
             [pr EXCEPT !.pc = "done", !.res = OkVoid, !.ack = Some(200)]]
        \/ proc' = [proc EXCEPT ![p] =
             [pr EXCEPT !.op = "generateFeed", !.pc = "par", !.gs = "select",
                        !.si = "pending", !.pre = Snapshot, !.started = @ + 1]]
     /\ DbUnchanged /\ UNCHANGED <<now, calls>>

\* await unauthenticated.admin(shop): a throw is caught and logged; else
\* generateFeed is called, its promise handed to ctx.waitUntil, and the
\* handler returns new Response()
HookAdmin(p) ==
  LET pr == proc[p]
  IN /\ pr.op = "webhook" /\ pr.pc = "admin"
     /\ \/ proc' = [proc EXCEPT ![p] =
             [pr EXCEPT !.pc = "done", !.res = OkVoid, !.ack = Some(200)]]
        \/ proc' = [proc EXCEPT ![p] =
             [pr EXCEPT !.op = "generateFeed", !.pc = "par", !.gs = "select",
                        !.si = "pending", !.pre = Snapshot,
                        !.started = @ + 1, !.ack = Some(200)]]
     /\ DbUnchanged /\ UNCHANGED <<now, calls>>

\* the app is installed for the first shop (its settings row exists), not
\* for the second
InitHook ==
  /\ feed_settings = {DefaultSettingsRow(1, "a.myshopify.com", MsPerSec)}
  /\ feed_settings_seq = 1
  /\ feed_cache = {} /\ feed_cache_seq = 0
  /\ now = MsPerSec
  /\ proc = [p \in Procs |-> IdleProc]
  /\ calls = 0
  /\ generated = {}

StepHook(p) ==
  \/ HookAuth(p) \/ HookSelect(p) \/ HookAdmin(p)
  \/ GetSelect(p)
  \/ FetchShopInfo(p) \/ FetchPage(p) \/ GenMap(p)
  \/ GenCacheWrite(p) \/ GenStamp(p)

\* NProcs deliveries for either shop, handled concurrently
NextHook ==
  \E p \in Procs :
    \/ \E shop \in Shops : CallWebhook(p, shop)
    \/ StepHook(p)
SpecHook == InitHook /\ [][NextHook]_vars

\* The app is uninstalled while product webhooks are being handled: product
\* deliveries arrive as long as the uninstall has not begun, and the
\* uninstall webhook calls deleteFeedData while a generation for the shop
\* is in flight
NextUninstall ==
  \E p \in Procs :
    \/ \E shop \in Shops :
         \/ /\ \A q \in Procs : proc[q].op # "deleteFeedData"
            /\ CallWebhook(p, shop)
         \/ /\ \E q \in Procs : /\ proc[q].op = "generateFeed"
                                /\ proc[q].pc # "done"
                                /\ proc[q].shop = shop
            /\ CallDeleteFeedData(p, shop)
    \/ HookAuth(p) \/ HookSelect(p) \/ HookAdmin(p)
    \/ GetSelect(p) \/ GetInsert(p)
    \/ FetchShopInfo(p) \/ FetchPage(p) \/ GenMap(p)
    \/ GenCacheWrite(p) \/ GenStamp(p)
    \/ DeleteSettings(p) \/ DeleteCache(p)
SpecUninstall == InitHook /\ [][NextUninstall]_vars

(***************************************************************************)
(* Direct calls of the mapper: mapProductsToFeed on a catalog, shop info   *)
(* and settings, then feedItemsToJsonl on the records it returned.         *)
(***************************************************************************)
MaxCatalogLen == 2
MapperCatalogs == UNION {[1..n -> MapperProducts] : n \in 0..MaxCatalogLen}

MapperCall(catalog, shopInfo, settings) ==
  [IdleProc EXCEPT !.op = "mapper", !.pc = "map", !.products = catalog,
                   !.shopInfo = Some(shopInfo), !.settings = Some(settings)]

InitMap ==
  /\ feed_settings = {} /\ feed_settings_seq = 0
  /\ feed_cache = {} /\ feed_cache_seq = 0
  /\ now = MsPerSec /\ calls = 0 /\ generated = {}
  /\ \E catalog \in MapperCatalogs, shopInfo \in MapperShopInfos,
        settings \in SettingsUniverse :
       proc = [p \in Procs |-> IF p = 1 THEN MapperCall(catalog, shopInfo, settings)
                                        ELSE IdleProc]

\* const feedItems = mapProductsToFeed(products, shopInfo, settings)
MapFeed(p) ==
  LET pr == proc[p]
      r == mapProductsToFeed(pr.products, pr.shopInfo[1], pr.settings[1])
  IN /\ pr.op = "mapper" /\ pr.pc = "map"
     /\ proc' = [proc EXCEPT ![p] =
          IF r.threw THEN [pr EXCEPT !.pc = "done", !.res = Threw("TypeError")]
          ELSE [pr EXCEPT !.pc = "serialize", !.items = r.items,
                          !.count = Len(r.items)]]
     /\ DbUnchanged /\ UNCHANGED <<now, calls>>

\* const jsonl = feedItemsToJsonl(feedItems)
Serialize(p) ==
  LET pr == proc[p]
  IN /\ pr.op = "mapper" /\ pr.pc = "serialize"
     /\ proc' = [proc EXCEPT ![p] =
          [pr EXCEPT !.pc = "done", !.jsonl = feedItemsToJsonl(pr.items),
                     !.res = OkVoid]]
     /\ DbUnchanged /\ UNCHANGED <<now, calls>>

NextMap == \E p \in Procs : MapFeed(p) \/ Serialize(p)

SpecMap == InitMap /\ [][NextMap]_vars

(***************************************************************************)
(* Properties.                                                             *)
(***************************************************************************)
RowOf(rows) == CHOOSE r \in rows : TRUE

Done(p, op) == proc[p].op = op /\ proc[p].pc = "done"
\* the call has resolved (not rejected)
Returned(p, op) == Done(p, op) /\ proc[p].res.kind = "ok"
GenSucceeded(p) == Done(p, "generateFeed") /\ proc[p].res.val[1].success
GenFailed(p) == Done(p, "generateFeed") /\ ~proc[p].res.val[1].success

OtherShops(table, shop) == {r \in table : r.shop # shop}

\* what a getFeedSettings call returns on the table as it is
ReadBack(table, shop) ==
  IF SettingsRowsOf(table, shop) = {} THEN DefaultSettings(shop)
  ELSE RowToSettings(RowOf(SettingsRowsOf(table, shop)))

\* the documented defaults: search on, checkout off, returns accepted, 30-day
\* deadline, exchanges accepted, store country US, target countries US
DocumentedDefaults(shop) ==
  [shop |-> shop, enable_search |-> TRUE, enable_checkout |-> FALSE,
   seller_name |-> NULL, seller_url |-> NULL, privacy_policy_url |-> NULL,
   terms_of_service_url |-> NULL, return_policy_url |-> NULL,
   accepts_returns |-> TRUE, return_deadline_days |-> 30,
   accepts_exchanges |-> TRUE, store_country |-> "US", target_countries |-> "US"]
HoldsDefaults(row) ==
  /\ row.enable_search = 1 /\ row.enable_checkout = 0
  /\ row.accepts_returns = 1 /\ row.return_deadline_days = 30
  /\ row.accepts_exchanges = 1
  /\ row.store_country = "US" /\ row.target_countries = "US"
  /\ row.seller_name = NULL /\ row.seller_url = NULL
  /\ row.privacy_policy_url = NULL /\ row.terms_of_service_url = NULL
  /\ row.return_policy_url = NULL

\* A consumer's reading of a payload: split on newline, parse each line back
\* to the record it encodes.  A line that encodes no record is kept as such.
RECURSIVE ParseJsonl(_)
ParseJsonl(text) ==
  IF text = "" THEN << >>
  ELSE LET heads == {it \in TableItems :
                       text = JsonTable[it] \/ StartsWith(text, JsonTable[it] \o "\n")}
       IN IF heads = {} THEN <<[unparsable |-> text]>>
          ELSE LET it == CHOOSE h \in heads : TRUE
                   rest == Drop(text, Len(JsonTable[it]) + 1)
               IN IF text = JsonTable[it] THEN <<it>>
                  ELSE IF rest = "" THEN <<it, [unparsable |-> ""]>>
                  ELSE <<it>> \o ParseJsonl(rest)

\* C1: when generateFeed returns a failure result, nothing has been written:
\* the feed_cache row and the feed_settings row of the shop are exactly as
\* they were before the call.
C1_FailureWritesNothing ==
  \A p \in Procs :
    GenFailed(p) =>
      /\ SettingsRowsOf(feed_settings, proc[p].shop)
           = SettingsRowsOf(proc[p].pre.fs, proc[p].shop)
      /\ CacheRowsOf(feed_cache, proc[p].shop)
           = CacheRowsOf(proc[p].pre.fc, proc[p].shop)

\* C2: getCachedFeed returns "absent" (null) only for a shop for which no
\* generation has succeeded, or whose cached feed was deleted since; after a
\* successful generation with zero records it returns a present result.
C2_AbsentOnlyIfNeverGenerated ==
  \A p \in Procs :
    (Returned(p, "getCachedFeed") /\ proc[p].res.val = None)
      => proc[p].shop \notin generated

\* C3: two getFeedSettings calls made for a shop that has no settings row
\* end, in any interleaving, with exactly one row for the shop and both calls
\* returning the default settings (no call fails, store outages aside).
C3_ConcurrentGetSafe ==
  \A p, q \in Procs :
    ( /\ p # q
      /\ Done(p, "getFeedSettings") /\ Done(q, "getFeedSettings")
      /\ proc[p].shop = proc[q].shop
      /\ SettingsRowsOf(proc[p].pre.fs, proc[p].shop) = {}
      /\ SettingsRowsOf(proc[q].pre.fs, proc[q].shop) = {}
      /\ proc[p].res.err # "D1_ERROR" /\ proc[q].res.err # "D1_ERROR" )
    => /\ Cardinality(SettingsRowsOf(feed_settings, proc[p].shop)) = 1
       /\ proc[p].res.kind = "ok" /\ proc[q].res.kind = "ok"
       /\ proc[p].res.val = Some(DefaultSettings(proc[p].shop))
       /\ proc[q].res.val = Some(DefaultSettings(proc[q].shop))

\* C4: called by one caller, getFeedSettings on a shop without a row inserts
\* exactly one row, which holds the documented defaults, and returns them; on
\* a shop with a row it changes nothing, and returns the documented defaults
\* again when the row still holds them.
C4_GetOrCreate ==
  \A p \in Procs :
    Returned(p, "getFeedSettings") =>
      LET shop == proc[p].shop
          before == SettingsRowsOf(proc[p].pre.fs, shop)
          after == SettingsRowsOf(feed_settings, shop)
      IN /\ Cardinality(after) = 1
         /\ feed_cache = proc[p].pre.fc
         /\ IF before = {}
              THEN /\ feed_settings = proc[p].pre.fs \cup after
                   /\ HoldsDefaults(RowOf(after))
                   /\ proc[p].res.val = Some(DocumentedDefaults(shop))
              ELSE /\ feed_settings = proc[p].pre.fs
                   /\ HoldsDefaults(RowOf(before))
                        => proc[p].res.val = Some(DocumentedDefaults(shop))

\* a second getFeedSettings on the row the first one created
C4_Witness ==
  \E p \in Procs :
    /\ Returned(p, "getFeedSettings")
    /\ SettingsRowsOf(proc[p].pre.fs, proc[p].shop) # {}
    /\ HoldsDefaults(RowOf(SettingsRowsOf(proc[p].pre.fs, proc[p].shop)))
    /\ proc[p].res.val = Some(DocumentedDefaults(proc[p].shop))

\* C5: updateFeedSettings(shop, changes) overwrites the settings columns named
\* in changes and leaves everything else: every settings field not in changes
\* reads back as before, the other columns of the row (updated_at aside) and
\* the rows of other shops and of feed_cache are unchanged.
C5_PartialUpdate ==
  \A p \in Procs :
    Returned(p, "updateFeedSettings") =>
      LET shop == proc[p].shop
          u == proc[p].updates
          before == SettingsRowsOf(proc[p].pre.fs, shop)
          after == SettingsRowsOf(feed_settings, shop)
      IN /\ Cardinality(after) = 1
         /\ \A f \in SettingsFields \ DOMAIN u :
              ReadBack(feed_settings, shop)[f] = ReadBack(proc[p].pre.fs, shop)[f]
         /\ \A f \in SettingsFields \cap DOMAIN u :
              RowOf(after)[f] = IF f \in BoolFields THEN (IF u[f] THEN 1 ELSE 0)
                                ELSE u[f]
         /\ before # {} =>
              \A c \in {"id", "shop", "feed_generated_at", "product_count", "created_at"} :
                RowOf(after)[c] = RowOf(before)[c]
         /\ OtherShops(feed_settings, shop) = OtherShops(proc[p].pre.fs, shop)
         /\ feed_cache = proc[p].pre.fc

\* an update of other fields on a row whose seller_name had been set
C5_Witness ==
  \E p \in Procs :
    /\ Returned(p, "updateFeedSettings")
    /\ "enable_search" \in DOMAIN proc[p].updates
    /\ SettingsRowsOf(proc[p].pre.fs, proc[p].shop) # {}
    /\ RowOf(SettingsRowsOf(proc[p].pre.fs, proc[p].shop)).seller_name = "Acme"
    /\ ReadBack(feed_settings, proc[p].shop).seller_name = "Acme"
    /\ ~ReadBack(feed_settings, proc[p].shop).enable_search

\* C6 as stated: updateFeedSettings with an empty set of changes writes
\* nothing; the database is identical before and after the call.
C6_EmptyUpdateWritesNothing ==
  \A p \in Procs :
    (Returned(p, "updateFeedSettings") /\ DOMAIN proc[p].updates = {})
      => /\ feed_settings = proc[p].pre.fs
         /\ feed_cache = proc[p].pre.fc

\* C6 amended: updateFeedSettings with an empty set of changes issues no
\* UPDATE: an existing row of the shop (its updated_at included), feed_cache
\* and the rows of other shops are identical before and after; when the shop
\* has no row, the only write is the insert of its default row.
C6_EmptyUpdateOnlyEnsuresRow ==
  \A p \in Procs :
    (Returned(p, "updateFeedSettings") /\ DOMAIN proc[p].updates = {})
      => LET shop == proc[p].shop
             before == SettingsRowsOf(proc[p].pre.fs, shop)
             after == SettingsRowsOf(feed_settings, shop)
         IN /\ feed_cache = proc[p].pre.fc
            /\ IF before # {} THEN feed_settings = proc[p].pre.fs
               ELSE /\ feed_settings = proc[p].pre.fs \cup after
                    /\ Cardinality(after) = 1
                    /\ HoldsDefaults(RowOf(after))
                    /\ RowOf(after).updated_at = RowOf(after).created_at

\* an empty update of a row last written before the current instant
C6_Witness ==
  \E p \in Procs :
    /\ Returned(p, "updateFeedSettings") /\ DOMAIN proc[p].updates = {}
    /\ SettingsRowsOf(proc[p].pre.fs, proc[p].shop) # {}
    /\ RowOf(SettingsRowsOf(feed_settings, proc[p].shop)).updated_at < now

\* C7: when deleteFeedData(shop) returns, both DELETE statements have run,
\* neither table has a row of the shop, the rows of other shops are as they
\* were, and on a shop without rows the database is unchanged.
C7_DeleteBoth ==
  \A p \in Procs :
    Returned(p, "deleteFeedData") =>
      LET shop == proc[p].shop
      IN /\ proc[p].pending = {}
         /\ SettingsRowsOf(feed_settings, shop) = {}
         /\ CacheRowsOf(feed_cache, shop) = {}
         /\ feed_settings = OtherShops(proc[p].pre.fs, shop)
         /\ feed_cache = OtherShops(proc[p].pre.fc, shop)
         /\ (SettingsRowsOf(proc[p].pre.fs, shop) = {}
               /\ CacheRowsOf(proc[p].pre.fc, shop) = {})
            => (feed_settings = proc[p].pre.fs /\ feed_cache = proc[p].pre.fc)

\* a delete of a shop that had both rows, next to another shop's row
C7_Witness ==
  \E p \in Procs :
    /\ Returned(p, "deleteFeedData")
    /\ SettingsRowsOf(proc[p].pre.fs, proc[p].shop) # {}
    /\ CacheRowsOf(proc[p].pre.fc, proc[p].shop) # {}
    /\ feed_settings # {}

\* C8: after a successful generateFeed there is exactly one feed_cache row of
\* the shop; its payload is the serialization of the records mapped from the
\* catalog this generation fetched, its product_count is the number of
\* records in the payload, and so is the returned productCount.
C8_FullReplace ==
  \A p \in Procs :
    GenSucceeded(p) =>
      LET pr == proc[p]
          rows == CacheRowsOf(feed_cache, pr.shop)
          mapped == mapProductsToFeed(pr.products, pr.shopInfo[1], pr.settings[1])
      IN /\ Cardinality(rows) = 1
         /\ ~mapped.threw
         /\ RowOf(rows).feed_data = feedItemsToJsonl(mapped.items)
         /\ ParseJsonl(RowOf(rows).feed_data) = mapped.items
         /\ RowOf(rows).product_count = Len(ParseJsonl(RowOf(rows).feed_data))
         /\ pr.res.val[1].productCount = RowOf(rows).product_count

\* a generation that replaced a non-empty payload by a different one
C8_Witness ==
  \E p \in Procs :
    /\ GenSucceeded(p)
    /\ proc[p].count >= 1
    /\ CacheRowsOf(proc[p].pre.fc, proc[p].shop) # {}
    /\ RowOf(CacheRowsOf(proc[p].pre.fc, proc[p].shop)).feed_data
         \notin {"", proc[p].jsonl}

\* C9: when generateFeed calls for one shop interleave, the feed_cache row of
\* a shop is, in every state, absent or the payload, count and timestamp of
\* one single generation; it changes only by a delete or by one generation's
\* write of all three, so the row is always that of the last writer.
WrittenBy(row, pr) ==
  /\ pr.op = "generateFeed" /\ pr.shop = row.shop
  /\ pr.pc \in {"stamp", "done"}
  /\ row.feed_data = pr.jsonl
  /\ row.product_count = pr.count
  /\ row.generated_at = pr.ts
CacheRowFromOneGeneration ==
  \A s \in Shops :
    LET rows == CacheRowsOf(feed_cache, s)
    IN rows # {} =>
         /\ Cardinality(rows) = 1
         /\ \E p \in Procs : WrittenBy(RowOf(rows), proc[p])
         /\ RowOf(rows).product_count = Len(ParseJsonl(RowOf(rows).feed_data))
CacheRowChangesWhole ==
  \A s \in Shops :
    CacheRowsOf(feed_cache', s) # CacheRowsOf(feed_cache, s) =>
      \/ CacheRowsOf(feed_cache', s) = {}
      \/ \E p \in Procs :
           /\ proc[p].op = "generateFeed" /\ proc[p].shop = s
           /\ proc[p].pc = "cache" /\ proc'[p].pc = "stamp"
           /\ CacheRowsOf(feed_cache', s) =
                {[id |-> feed_cache_seq', shop |-> s,
                  feed_data |-> proc[p].jsonl,
                  product_count |-> proc[p].count,
                  generated_at |-> proc[p].ts]}
C9_LastWriterWins == []CacheRowFromOneGeneration /\ [][CacheRowChangesWhole]_vars

\* two generations of one shop with different payloads have both finished
C9_Witness ==
  \E p, q \in Procs :
    /\ p # q /\ GenSucceeded(p) /\ GenSucceeded(q)
    /\ proc[p].shop = proc[q].shop
    /\ proc[p].jsonl # proc[q].jsonl
    /\ WrittenBy(RowOf(CacheRowsOf(feed_cache, proc[p].shop)), proc[p])

\* C10: a generation that received a catalog page without products data is
\* aborted: it returns a failure and does not replace the cached feed.
C10_MalformedPageAborts ==
  \A p \in Procs :
    (Done(p, "generateFeed") /\ proc[p].halted) =>
      /\ ~proc[p].res.val[1].success
      /\ CacheRowsOf(feed_cache, proc[p].shop)
           = CacheRowsOf(proc[p].pre.fc, proc[p].shop)

(***************************************************************************)
(* Properties of the mapper, stated against the inputs of the call.        *)
(***************************************************************************)
\* the call of mapProductsToFeed returned its records
Mapped(p) ==
  /\ proc[p].op = "mapper" /\ proc[p].pc \in {"serialize", "done"}
  /\ proc[p].res.kind # "threw"
\* feedItemsToJsonl returned as well
Serialized(p) == proc[p].op = "mapper" /\ proc[p].pc = "done" /\ proc[p].res.kind = "ok"

\* the (product, variant) pairs of a catalog, in catalog order
RECURSIVE VariantPairs(_)
VariantPairs(products) ==
  IF products = << >> THEN << >>
  ELSE [i \in 1..Len(products[1].variants) |->
          [product |-> products[1], variant |-> products[1].variants[i]]]
       \o VariantPairs(Tail(products))
IsSet(text) == text \notin {NULL, ""}
ResolvableImage(pv) ==
  IF IsSet(pv.variant.image) THEN pv.variant.image
  ELSE IF pv.product.images # << >> THEN pv.product.images[1]
  ELSE ""
\* the pairs that are to yield a record: ACTIVE product, resolvable image
Emitting(products) ==
  SelectSeq(VariantPairs(products),
            LAMBDA pv : pv.product.status = "ACTIVE" /\ ResolvableImage(pv) # "")
\* the numeric id a GID ends with, for the products of the input universe
NumericId(product) ==
  CASE product.id = "gid://shopify/Product/101" -> "101"
    [] product.id = "gid://shopify/Product/102" -> "102"
    [] product.id = "gid://shopify/Product/103" -> "103"
    [] product.id = "gid://shopify/Product/104" -> "104"
    [] product.id = "gid://shopify/Product/105" -> "105"
    [] product.id = "gid://shopify/Product/106" -> "106"
    [] product.id = "gid://shopify/Product/107" -> "107"

\* C11: mapProductsToFeed emits no record for a variant of a product whose
\* status is not ACTIVE: the records are, in order, those of the variants of
\* ACTIVE products (with an image), each carrying the id and title of its
\* product, and no record has the group_id of a non-ACTIVE product unless an
\* ACTIVE product shares that id.
C11_NoInactiveProduct ==
  \A p \in Procs :
    Mapped(p) =>
      LET items == proc[p].items
          products == proc[p].products
          live == Emitting(products)
          Ids(status) == {NumericId(products[k]) :
                            k \in {j \in 1..Len(products) : status[products[j].status]}}
          activeIds == Ids([st \in {"ACTIVE", "DRAFT", "ARCHIVED"} |-> st = "ACTIVE"])
          otherIds == Ids([st \in {"ACTIVE", "DRAFT", "ARCHIVED"} |-> st # "ACTIVE"])
      IN /\ Len(items) = Len(live)
         /\ \A i \in 1..Len(items) :
              /\ live[i].product.status = "ACTIVE"
              /\ items[i].group_id = NumericId(live[i].product)
              /\ items[i].item_group_title = live[i].product.title
              /\ items[i].group_id \in otherIds => items[i].group_id \in activeIds
         /\ activeIds = {} => items = << >>

\* a catalog of an archived product with images and an ACTIVE product that
\* yields records
C11_Witness ==
  \E p \in Procs :
    /\ Mapped(p)
    /\ \E k \in 1..Len(proc[p].products) : proc[p].products[k] = Vase
    /\ proc[p].items # << >>

\* C12: a variant with no variant image whose product has no images yields
\* no record; every record has a non-empty image_url, the variant image if
\* set, else the first product image.
C12_ImageRequired ==
  \A p \in Procs :
    Mapped(p) =>
      LET items == proc[p].items
          pairs == VariantPairs(proc[p].products)
          imageless == SelectSeq(pairs, LAMBDA pv : ResolvableImage(pv) = "")
          live == Emitting(proc[p].products)
      IN /\ Len(items) = Len(live)
         /\ Len(items) <= Len(pairs) - Len(imageless)
         /\ \A i \in 1..Len(items) :
              /\ items[i].image_url # ""
              /\ items[i].image_url =
                   (IF IsSet(live[i].variant.image) THEN live[i].variant.image
                    ELSE live[i].product.images[1])

\* a catalog with an imageless variant next to records taking the variant
\* image and the product image
C12_Witness ==
  \E p \in Procs :
    /\ Mapped(p)
    /\ proc[p].products = <<Shirt, Poster>>
    /\ \E i, j \in 1..Len(proc[p].items) :
         /\ proc[p].items[i].image_url = RedVariant.image
         /\ proc[p].items[j].image_url = Poster.images[1]

\* amounts of the input universe, in hundredths; -1 for no amount
Amount(text) ==
  CASE text = "3.00" -> 300 [] text = "7.00" -> 700 [] text = "8.00" -> 800
    [] text = "9.00" -> 900 [] text = "9.50" -> 950 [] text = "9.75" -> 975
    [] text = "10.00" -> 1000 [] text = "10.5" -> 1050 [] text = "12.00" -> 1200
    [] OTHER -> -1

\* C13: price-swap law.  With variant price P, compare-at C and currency K
\* (the shop currency, "USD" when unset): if C is present and C > P the
\* record has price "C K" and sale_price "P K"; otherwise price "P K" and no
\* sale_price field.
C13_PriceSwap ==
  \A p \in Procs :
    Mapped(p) =>
      LET items == proc[p].items
          live == Emitting(proc[p].products)
          K == IF IsSet(proc[p].shopInfo[1].currencyCode)
                 THEN proc[p].shopInfo[1].currencyCode ELSE "USD"
      IN /\ Len(items) = Len(live)
         /\ \A i \in 1..Len(items) :
              LET P == live[i].variant.price
                  C == live[i].variant.compareAtPrice
              IN IF IsSet(C) /\ Amount(C) > Amount(P)
                   THEN /\ items[i].price = C \o " " \o K
                        /\ "sale_price" \in DOMAIN items[i]
                        /\ items[i].sale_price = P \o " " \o K
                   ELSE /\ items[i].price = P \o " " \o K
                        /\ "sale_price" \notin DOMAIN items[i]

\* a shop without currency, with a discounted record ("10.5" over "9.75"),
\* one with equal amounts, one with a lower compare-at and one with none
C13_Witness ==
  \E p \in Procs :
    /\ Mapped(p)
    /\ proc[p].shopInfo[1].currencyCode = NULL
    /\ proc[p].products = <<Poster>>
    /\ Len(proc[p].items) = 5
    /\ proc[p].items[3].price = "10.5 USD" /\ proc[p].items[3].sale_price = "9.75 USD"
    /\ proc[p].items[4].price = "9.50 USD"
    /\ proc[p].items[2].price = "9.00 USD"

\* option names of the input universe, lower-cased
LowerName(name) ==
  CASE name = "Title" -> "title" [] name = "Color" -> "color"
    [] name = "color" -> "color" [] name = "Size" -> "size"
    [] name = "SIZE" -> "size"
\* the JSON object of the option pairs: one member per lower-cased name, at
\* the place of its first pair, with the value of its last pair
ExpectedDict(opts) ==
  LET firsts == {i \in 1..Len(opts) :
                   \A j \in 1..(i - 1) : LowerName(opts[j].name) # LowerName(opts[i].name)}
      LastValue(i) ==
        opts[CHOOSE j \in 1..Len(opts) :
               /\ LowerName(opts[j].name) = LowerName(opts[i].name)
               /\ \A k \in (j + 1)..Len(opts) :
                    LowerName(opts[k].name) # LowerName(opts[i].name)].value
      members == [i \in 1..Len(opts) |->
                    IF i \in firsts
                      THEN "\"" \o LowerName(opts[i].name) \o "\":\"" \o LastValue(i) \o "\""
                      ELSE ""]
  IN "{" \o Join(SelectSeq(members, LAMBDA m : m # ""), ",") \o "}"

\* C14: a record has no variant_dict field when the variant has zero option
\* pairs or exactly one pair whose value is "Default Title", whatever its
\* name; in every other case variant_dict is the JSON object that maps each
\* lower-cased option name to its value.
C14_VariantDict ==
  \A p \in Procs :
    Mapped(p) =>
      LET items == proc[p].items
          live == Emitting(proc[p].products)
      IN /\ Len(items) = Len(live)
         /\ \A i \in 1..Len(items) :
              LET opts == live[i].variant.selectedOptions
              IN IF Len(opts) = 0 \/ (Len(opts) = 1 /\ opts[1].value = "Default Title")
                   THEN "variant_dict" \notin DOMAIN items[i]
                   ELSE /\ "variant_dict" \in DOMAIN items[i]
                        /\ items[i].variant_dict = ExpectedDict(opts)

\* records of a variant without pairs, of one with the sentinel under the
\* name "Size", of one with two pairs and of one with a repeated name
C14_Witness ==
  \E p \in Procs :
    /\ Mapped(p)
    /\ proc[p].products = <<Poster>>
    /\ Len(proc[p].items) = 5
    /\ "variant_dict" \notin DOMAIN proc[p].items[1]
    /\ "variant_dict" \notin DOMAIN proc[p].items[2]
    /\ proc[p].items[3].variant_dict = "{\"color\":\"Default Title\",\"size\":\"M\"}"
    /\ proc[p].items[5].variant_dict = "{\"color\":\"Crimson\"}"

\* C15 as stated: for every list of N records, N = 0 included, splitting
\* feedItemsToJsonl(records) on newline yields exactly N lines, the i-th the
\* JSON encoding of the i-th record.
C15_RoundTripAnyLength ==
  \A p \in Procs :
    Serialized(p) =>
      LET lines == Split(proc[p].jsonl, "\n")
      IN /\ Len(lines) = Len(proc[p].items)
         /\ \A i \in 1..Len(lines) : lines[i] = StringifyItem(proc[p].items[i])

\* C15 amended: for every list of N >= 1 records, splitting the text on
\* newline yields exactly N lines, the i-th the JSON encoding of the i-th
\* record, and parsing the lines gives the records back in order; for the
\* empty list the text is the empty string (which splits into one empty
\* line, not zero lines).
C15_RoundTrip ==
  \A p \in Procs :
    Serialized(p) =>
      LET items == proc[p].items
          lines == Split(proc[p].jsonl, "\n")
      IN IF items = << >>
           THEN proc[p].jsonl = "" /\ lines = <<"">>
           ELSE /\ Len(lines) = Len(items)
                /\ \A i \in 1..Len(lines) :
                     /\ lines[i] = StringifyItem(items[i])
                     /\ ParseJsonl(lines[i]) = <<items[i]>>
                /\ ParseJsonl(proc[p].jsonl) = items

\* several records, one of them with a line break in its description
C15_Witness ==
  \E p \in Procs :
    /\ Serialized(p)
    /\ Len(proc[p].items) >= 2
    /\ \E i \in 1..Len(proc[p].items) : proc[p].items[i].description = Poster.description
    /\ Len(Split(proc[p].jsonl, "\n")) = Len(proc[p].items)

\* C16: the feed endpoint answers "not yet generated" (404) exactly when no
\* cache row exists for the shop, and otherwise (store failures aside, which
\* give 500) 200 with the cached payload, a record count equal to the row's
\* product_count and a Last-Modified derived from its generated_at; a shop
\* whose last successful generation produced an empty feed is served 200.
C16_NotFoundOnlyWithoutRow ==
  \A p \in Procs :
    (Done(p, "loader") /\ proc[p].shop # "") =>
      LET rows == CacheRowsOf(feed_cache, proc[p].shop)
          r == proc[p].res.val[1]
      IN /\ r.status \in {200, 404, 500}
         /\ r.status = 404 <=> (rows = {} /\ r.status # 500)
         /\ proc[p].shop \in generated => r.status \in {200, 500}
         /\ r.status = 200 =>
              /\ r.body \in {RowOf(rows).feed_data, Gzip(RowOf(rows).feed_data)}
              /\ r.productCount = NumToString(RowOf(rows).product_count)
              /\ r.lastModified = toUTCString(RowOf(rows).generated_at)

\* C17: the webhook handler returns its acknowledgement without waiting for
\* generateFeed: the delivery is acknowledged (200) in the step that starts
\* the generation, while the generation has not finished; a delivery starts
\* at most one generateFeed; whatever the generation does afterwards, and
\* however it ends, the acknowledgement stays as it was returned.
HookAcknowledged ==
  \A p \in Procs :
    /\ proc[p].started <= 1
    /\ proc[p].ack \in {None, Some(200)}
    /\ proc[p].started = 1 => proc[p].ack = Some(200)
    /\ (proc[p].op = "generateFeed" /\ proc[p].pc # "done") => proc[p].ack = Some(200)
HookAckStep ==
  \A p \in Procs :
    /\ proc'[p].started \in {proc[p].started, proc[p].started + 1}
    /\ proc'[p].started = proc[p].started + 1 =>
         /\ proc[p].op = "webhook" /\ proc[p].ack = None
         /\ proc'[p].op = "generateFeed" /\ proc'[p].pc = "par"
         /\ proc'[p].ack = Some(200)
    /\ proc[p].ack # None => proc'[p].ack = proc[p].ack
C17_AckDoesNotWait == []HookAcknowledged /\ [][HookAckStep]_vars

\* an acknowledged delivery whose generation failed, next to one whose
\* generation is still running
C17_Witness ==
  \E p, q \in Procs :
    /\ GenFailed(p) /\ proc[p].started = 1 /\ proc[p].ack = Some(200)
    /\ proc[q].op = "generateFeed" /\ proc[q].pc \notin {"par", "done"}
    /\ proc[q].ack = Some(200)

\* the settings fields for which a shop payload carries a value (the
\* policies carry none)
Supplied(shopInfo) ==
  {f \in {"seller_name", "seller_url", "store_country", "target_countries"} :
     \/ f = "seller_name" /\ IsSet(shopInfo.name)
     \/ f = "seller_url" /\ (IsSet(shopInfo.primaryDomainUrl) \/ IsSet(shopInfo.url))
     \/ f = "store_country" /\ IsSet(shopInfo.countryCodeV2)
     \/ f = "target_countries" /\ shopInfo.shipsToCountries # << >>}

\* C18: autoPopulateSettings overwrites only the settings fields for which
\* shop info or policies supplied a value: every other one of seller name,
\* seller URL, store country, target countries and the three policy URLs
\* keeps the value stored before the call, and the returned settings are
\* those of the stored row.
C18_OnlySuppliedOverwritten ==
  \A p \in Procs :
    Returned(p, "autoPopulateSettings") =>
      LET shop == proc[p].shop
          before == SettingsRowsOf(proc[p].pre.fs, shop)
          stored == IF before = {} THEN DefaultSettingsRow(0, shop, 0) ELSE RowOf(before)
          after == RowOf(SettingsRowsOf(feed_settings, shop))
      IN /\ \A f \in {"seller_name", "seller_url", "store_country", "target_countries",
                      "privacy_policy_url", "terms_of_service_url", "return_policy_url"}
                     \ Supplied(proc[p].shopInfo[1]) :
              after[f] = stored[f]
         /\ proc[p].res.val = Some(RowToSettings(after))

\* C19: generateFeed never raises: whichever fetch or store step fails or
\* succeeds, a finished call has returned a value that is either success
\* with the number of records it stored, or failure with productCount 0
\* and a reason text.
C19_AlwaysResultValue ==
  \A p \in Procs :
    Done(p, "generateFeed") =>
      /\ proc[p].res.kind = "ok"
      /\ LET r == proc[p].res.val[1]
         IN IF r.success
              THEN /\ r.productCount = proc[p].count
                   /\ r.productCount =
                        RowOf(CacheRowsOf(feed_cache, proc[p].shop)).product_count
              ELSE /\ r.productCount = 0
                   /\ IsSet(r.error)

\* a call that failed at its last store step, after the records were stored
C19_Witness ==
  \E p \in Procs :
    /\ GenFailed(p)
    /\ proc[p].res.val[1].error = "D1_ERROR"
    /\ proc[p].count > 0
    /\ CacheRowsOf(feed_cache, proc[p].shop) # {}

\* the products of the pages received, in the order of the requests
RECURSIVE PagesInOrder(_)
PagesInOrder(log) ==
  IF log = << >> THEN << >>
  ELSE (IF Head(log).outcome = "page" THEN Head(log).products ELSE << >>)
       \o PagesInOrder(Tail(log))

\* C20: fetchAllProducts paginates strictly sequentially: the first request
\* carries a null cursor, every later request carries the endCursor of the
\* page received just before it, no request follows a page with
\* hasNextPage = false (or a response without products), and the value
\* returned is the concatenation of the pages' products in page order.
C20_SequentialPagination ==
  \A p \in Procs :
    proc[p].op = "fetchAllProducts" =>
      LET log == proc[p].log
      IN /\ log # << >> => log[1].cursor = NULL
         /\ \A i \in 2..Len(log) :
              /\ log[i - 1].outcome = "page" /\ log[i - 1].hasNextPage
              /\ log[i].cursor = log[i - 1].endCursor
         /\ proc[p].pc = "fetch" => proc[p].reqs = Len(log)
         /\ Returned(p, "fetchAllProducts") =>
              proc[p].res.val = Some(PagesInOrder(log))

\* three pages, the first two non-empty and different, the last one final
C20_Witness ==
  \E p \in Procs :
    /\ Returned(p, "fetchAllProducts")
    /\ Len(proc[p].log) = 3
    /\ proc[p].log[1].products = <<Lamp>>
    /\ proc[p].log[2].products = <<Shirt>>
    /\ proc[p].log[2].cursor = "cursor:" \o Lamp.id
    /\ proc[p].log[3].cursor = "cursor:" \o Shirt.id
    /\ ~proc[p].log[3].hasNextPage
    /\ Len(proc[p].res.val[1]) >= 2

\* what identifies the record of a pair: the SKU, else the numeric ids of
\* product and variant (the last three characters of the variant GID)
OfferKey(pv) ==
  IF IsSet(pv.variant.sku) THEN pv.variant.sku
  ELSE NumericId(pv.product) \o "-"
       \o SubSeq(pv.variant.id, Len(pv.variant.id) - 2, Len(pv.variant.id))

\* C21: mapProductsToFeed preserves input order and neither duplicates nor
\* merges: the records are, one per pair and in the same order, those of
\* the (product, variant) pairs that are not skipped, products in input
\* order and variants in declared order; there are at most as many records
\* as variants, and products with equal ids are all kept.
C21_OrderPreserved ==
  \A p \in Procs :
    Mapped(p) =>
      LET items == proc[p].items
          pairs == VariantPairs(proc[p].products)
          live == Emitting(proc[p].products)
      IN /\ Len(items) = Len(live)
         /\ Len(items) <= Len(pairs)
         /\ proc[p].count = Len(items)
         /\ \A i \in 1..Len(items) :
              /\ items[i].offer_id = OfferKey(live[i])
              /\ items[i].item_id = OfferKey(live[i])
              /\ items[i].group_id = NumericId(live[i].product)

\* the same product twice in the catalog: its records come twice, and a
\* catalog of two different products keeps the order of the products
C21_Witness ==
  \E p \in Procs :
    /\ Mapped(p)
    /\ proc[p].products = <<Poster, Poster>>
    /\ Len(proc[p].items) = 10
    /\ proc[p].items[1].offer_id = "PLAIN" /\ proc[p].items[6].offer_id = "PLAIN"
    /\ proc[p].items[2].offer_id = "105-205"

\* C22: availability follows the priority order policy CONTINUE, sellable
\* flag, known quantity <= 0, sellable flag again: a record is out_of_stock
\* exactly when the policy of its variant is not CONTINUE and its sellable
\* flag is false, whatever the quantity, and in_stock otherwise; preorder
\* never appears.
C22_Availability ==
  \A p \in Procs :
    Mapped(p) =>
      LET items == proc[p].items
          live == Emitting(proc[p].products)
      IN /\ Len(items) = Len(live)
         /\ \A i \in 1..Len(items) :
              LET v == live[i].variant
              IN /\ items[i].availability \in {"in_stock", "out_of_stock"}
                 /\ items[i].availability = "out_of_stock"
                      <=> (v.inventoryPolicy # "CONTINUE" /\ ~v.availableForSale)
                 /\ v.inventoryPolicy = "CONTINUE" => items[i].availability = "in_stock"

\* records of an unsellable variant sold under CONTINUE, of an unsellable
\* one with stock left, of one with no stock and of one with unknown stock
C22_Witness ==
  \E p \in Procs :
    /\ Mapped(p)
    /\ proc[p].products = <<Poster, Shirt>>
    /\ Len(proc[p].items) = 6
    /\ ~BlueVariant.availableForSale /\ proc[p].items[4].availability = "in_stock"
    /\ PlainVariant.inventoryQuantity = Some(3)
    /\ proc[p].items[1].availability = "out_of_stock"
    /\ RepeatVariant.inventoryQuantity = None
    /\ proc[p].items[5].availability = "out_of_stock"
    /\ RedVariant.inventoryQuantity = Some(0)
    /\ proc[p].items[6].availability = "out_of_stock"

\* the title and flag a record is to carry, given whether its pair counts
\* as a variation
TitledAs(item, pv, varies) ==
  /\ item.listing_has_variations = varies
  /\ item.title = (IF varies THEN pv.product.title \o " - " \o pv.variant.title
                             ELSE pv.product.title)

\* C23 (as stated): listing_has_variations is true exactly when the product
\* has more than one variant or the first declared option value of the
\* variant is not "Default Title", a variant without options included; the
\* title is "{product.title} - {variant.title}" when the flag is true and
\* product.title otherwise.
C23_HasVariations ==
  \A p \in Procs :
    Mapped(p) =>
      LET items == proc[p].items
          live == Emitting(proc[p].products)
      IN /\ Len(items) = Len(live)
         /\ \A i \in 1..Len(items) :
              LET options == live[i].variant.selectedOptions
              IN TitledAs(items[i], live[i],
                   \/ Len(live[i].product.variants) > 1
                   \/ options = << >>
                   \/ options[1].value # "Default Title")

\* C23 (amended): listing_has_variations is true exactly when the product
\* has more than one variant or the variant declares at least one option
\* and the value of the first is not "Default Title"; the only variant of a
\* product that declares no options gives false.  The title is
\* "{product.title} - {variant.title}" when the flag is true and
\* product.title otherwise.
C23_HasVariationsDeclared ==
  \A p \in Procs :
    Mapped(p) =>
      LET items == proc[p].items
          live == Emitting(proc[p].products)
      IN /\ Len(items) = Len(live)
         /\ \A i \in 1..Len(items) :
              LET options == live[i].variant.selectedOptions
              IN TitledAs(items[i], live[i],
                   \/ Len(live[i].product.variants) > 1
                   \/ (options # << >> /\ options[1].value # "Default Title"))

\* the record of a sole variant without options next to the records of a
\* product with several variants, one of them with the sentinel value
C23_Witness ==
  \E p \in Procs :
    /\ Mapped(p)
    /\ proc[p].products = <<Card, Poster>>
    /\ Len(proc[p].items) = 6
    /\ ~proc[p].items[1].listing_has_variations /\ proc[p].items[1].title = "Card"
    /\ proc[p].items[3].listing_has_variations
    /\ proc[p].items[3].title = "Poster - Default Title"

\* C24: the returns block is all-or-nothing: every record either has all of
\* accepts_returns, return_deadline_in_days, accepts_exchanges and
\* return_policy, with the values of the settings, which is the case
\* exactly when the settings have a non-empty return policy URL, or has
\* none of them, whatever the return flags are.
C24_ReturnsBlock ==
  \A p \in Procs :
    Mapped(p) =>
      LET settings == proc[p].settings[1]
          block == {"accepts_returns", "return_deadline_in_days",
                    "accepts_exchanges", "return_policy"}
      IN \A i \in 1..Len(proc[p].items) :
           LET item == proc[p].items[i]
           IN IF IsSet(settings.return_policy_url)
                THEN /\ block \subseteq DOMAIN item
                     /\ item.accepts_returns = settings.accepts_returns
                     /\ item.return_deadline_in_days = settings.return_deadline_days
                     /\ item.accepts_exchanges = settings.accepts_exchanges
                     /\ item.return_policy = settings.return_policy_url
                ELSE block \cap DOMAIN item = {}

\* records with the block although accepts_returns is false
C24_Witness ==
  \E p \in Procs :
    /\ Mapped(p)
    /\ Len(proc[p].items) >= 2
    /\ IsSet(proc[p].settings[1].return_policy_url)
    /\ ~proc[p].settings[1].accepts_returns
    /\ proc[p].items[2].return_policy = "https://acme.example/returns"
    /\ ~proc[p].items[2].accepts_returns

\* C25: shop removal is final with respect to in-flight work: when
\* deleteFeedData(shop) ran while a generateFeed for the shop was in flight,
\* both have finished and no generation was started after the delete, the
\* shop has neither a feed_settings row nor a feed_cache row.
C25_RemovalFinal ==
  \A p \in Procs :
    (/\ Returned(p, "deleteFeedData")
     /\ \A q \in Procs : proc[q].op = "idle" \/ proc[q].pc = "done")
    => /\ SettingsRowsOf(feed_settings, proc[p].shop) = {}
       /\ CacheRowsOf(feed_cache, proc[p].shop) = {}

\* C26: the settings stamp agrees with the cache: whenever no generateFeed
\* is in flight for a shop and at least one has succeeded, feed_generated_at
\* and product_count of the feed_settings row equal generated_at and
\* product_count of the feed_cache row, also after concurrent generations
\* for the shop.  (Stated for the case that every finished generation of
\* the shop succeeded and both rows are there.)
C26_StampAgreesWithCache ==
  \A shop \in Shops :
    LET gens == {p \in Procs : proc[p].op = "generateFeed" /\ proc[p].shop = shop}
        srows == SettingsRowsOf(feed_settings, shop)
        crows == CacheRowsOf(feed_cache, shop)
    IN (/\ gens # {}
        /\ \A p \in gens : GenSucceeded(p)
        /\ srows # {} /\ crows # {})
       => /\ RowOf(srows).feed_generated_at = Some(RowOf(crows).generated_at)
          /\ RowOf(srows).product_count = RowOf(crows).product_count

\* C27: a product-change notification for a shop without a feed_settings
\* row starts no generation and writes nothing: its handler never gets past
\* the lookup of the settings row, it answers 200 when the lookup worked,
\* and the shop has no feed_settings row and no feed_cache row, while the
\* handler runs and after it.
C27_UnconfiguredShopUntouched ==
  \A p \in Procs :
    (proc[p].op # "idle" /\ SettingsRowsOf(proc[p].pre.fs, proc[p].shop) = {})
    => /\ proc[p].op = "webhook"
       /\ proc[p].pc \in {"auth", "select", "done"}
       /\ proc[p].started = 0
       /\ proc[p].pc = "done" /\ proc[p].res.kind = "ok" => proc[p].ack = Some(200)
       /\ SettingsRowsOf(feed_settings, proc[p].shop) = {}
       /\ CacheRowsOf(feed_cache, proc[p].shop) = {}

\* the notification for the shop without a row was answered, while one for
\* the installed shop led to a stored feed
C27_Witness ==
  \E p, q \in Procs :
    /\ proc[p].op = "webhook" /\ proc[p].pc = "done" /\ proc[p].ack = Some(200)
    /\ SettingsRowsOf(proc[p].pre.fs, proc[p].shop) = {}
    /\ GenSucceeded(q)
    /\ CacheRowsOf(feed_cache, proc[q].shop) # {}
    /\ CacheRowsOf(feed_cache, proc[p].shop) = {}

====
